---- MODULE Spec2Model ----
(***************************************************************************)
(* Fraud / scam detection service: the SMS, email and chat analyzers       *)
(* (services/sms_analyzer.py, services/email_analyzer.py,                  *)
(* services/chat_analyzer.py).  Each analyzer runs an external classifier  *)
(* and rule-based leaf scorers over the preprocessed content, fuses their  *)
(* scores into one risk score, maps it to a risk level and builds the      *)
(* trigger list and the explanation.  The email analyzer also keeps a      *)
(* bounded cache of complete results.                                      *)
(*                                                                         *)
(* Text is modelled as a sequence of tokens separated by single blanks.    *)
(* A token is a word or a phrase of a fixed vocabulary; the tables below   *)
(* give, for every token, its character counts and the regular             *)
(* expressions of each channel it matches.  Scores are exact fixed-point   *)
(* numbers: the integer ONE stands for 1.0 and every score the code can    *)
(* compute from the vocabulary is a whole number of units (Python's        *)
(* floating-point rounding is not modelled).                               *)
(***************************************************************************)
EXTENDS Integers, Sequences, FiniteSets, TLC

(***************************************************************************)
(* Fixed-point arithmetic.                                                 *)
(***************************************************************************)
ONE == 4000 * 63000

\* the score n/d; d divides ONE
Frac(n, d) == (ONE \div d) * n

\* x * n / d; d divides x
Times(x, n, d) == (x \div d) * n

Min(a, b) == IF a <= b THEN a ELSE b

Max(a, b) == IF a >= b THEN a ELSE b

RECURSIVE SumSeq(_)
SumSeq(s) == IF s = <<>> THEN 0 ELSE Head(s) + SumSeq(Tail(s))

RECURSIVE Flatten(_)
Flatten(ss) == IF ss = <<>> THEN <<>> ELSE Head(ss) \o Flatten(Tail(ss))

Range(s) == {s[i] : i \in 1..Len(s)}

\* the number of TRUE entries of a sequence of booleans (Python: sum(flags))
CountTrue(flags) == Cardinality({i \in 1..Len(flags) : flags[i]})

\* all sequences over S of length 0..n
SeqsUpTo(S, n) == UNION {[1..k -> S] : k \in 0..n}

\* the first k elements of a sequence (Python: s[:k])
Take(s, k) == SubSeq(s, 1, Min(k, Len(s)))

None == "<None>"

(***************************************************************************)
(* Bounds of the model.                                                    *)
(***************************************************************************)
\* the longest message, in tokens
MaxTokens == 3

(***************************************************************************)
(* The vocabulary.  Chars gives the characters of a token as Python's      *)
(* len, str.isupper, str.isdigit and "not isalnum and not isspace" count   *)
(* them; Stem is the lower-cased word the regular expressions see inside   *)
(* the token (they are compiled with re.IGNORECASE and anchored with \b);  *)
(* Found is the substring findall returns for a match.                     *)
(***************************************************************************)
Ch(l, u, d, s) == [len |-> l, upper |-> u, digit |-> d, special |-> s]

Chars ==
    ("hello"                   :> Ch(5, 0, 0, 0))  @@
    ("please call me or"       :> Ch(17, 0, 0, 0)) @@
    ("URGENT"                  :> Ch(6, 6, 0, 0))  @@
    ("urgent"                  :> Ch(6, 0, 0, 0))  @@
    ("arrest"                  :> Ch(6, 0, 0, 0))  @@
    ("bitcoin"                 :> Ch(7, 0, 0, 0))  @@
    ("verified"                :> Ch(8, 0, 0, 0))  @@
    ("5551234567"              :> Ch(10, 0, 10, 0)) @@
    ("http://bit.ly/x"         :> Ch(15, 0, 0, 5)) @@
    ("http://pay.tk/login"     :> Ch(19, 0, 0, 5)) @@
    ("http://bit.ly.tk/login"  :> Ch(22, 0, 0, 6)) @@
    ("[PHONE]"                 :> Ch(7, 5, 0, 2))  @@
    ("[URL]"                   :> Ch(5, 3, 0, 2))  @@
    ("body:"                   :> Ch(5, 0, 0, 1))  @@
    ("Body:"                   :> Ch(5, 1, 0, 1))  @@
    ("Subject:"                :> Ch(8, 1, 0, 1))  @@
    ("subject:"                :> Ch(8, 0, 0, 1))  @@
    \* the words of the warrant message of test_scam_detection
    ("URGENT:"                 :> Ch(7, 6, 0, 1))  @@
    ("You have an outstanding" :> Ch(23, 1, 0, 0)) @@
    ("warrant."                :> Ch(8, 0, 0, 1))  @@
    ("Call"                    :> Ch(4, 1, 0, 0))  @@
    ("555-0123"                :> Ch(8, 0, 7, 1))  @@
    ("immediately"             :> Ch(11, 0, 0, 0)) @@
    ("or face"                 :> Ch(7, 0, 0, 0))  @@
    ("arrest!"                 :> Ch(7, 0, 0, 1))  @@
    ("http://example.com/a"    :> Ch(20, 0, 0, 5)) @@
    ("thank you for banking with us" :> Ch(29, 0, 0, 0)) @@
    ("short content"           :> Ch(13, 0, 0, 0)) @@
    \* "A1!" written seventy times without a space
    ("A1!A1!A1!..."            :> Ch(210, 70, 70, 70))

Found ==
    [t \in DOMAIN Chars |->
        CASE t = "URGENT:"  -> "URGENT"
          [] t = "warrant." -> "warrant"
          [] t = "arrest!"  -> "arrest"
          [] OTHER          -> t]

Stem ==
    [t \in DOMAIN Chars |->
        CASE t \in {"URGENT", "URGENT:"} -> "urgent"
          [] t = "warrant."              -> "warrant"
          [] t = "arrest!"               -> "arrest"
          [] t = "Call"                  -> "call"
          [] t = "You have an outstanding" -> "you have an outstanding"
          [] t = "Body:"                 -> "body:"
          [] t = "Subject:"              -> "subject:"
          [] OTHER                       -> t]

\* len(text) of the tokens joined by single blanks
TextLen(toks) ==
    IF toks = <<>> THEN 0
    ELSE SumSeq([i \in 1..Len(toks) |-> Chars[toks[i]].len]) + (Len(toks) - 1)

CountOf(toks, field) ==
    SumSeq([i \in 1..Len(toks) |->
        CASE field = "upper"   -> Chars[toks[i]].upper
          [] field = "digit"   -> Chars[toks[i]].digit
          [] field = "special" -> Chars[toks[i]].special])

\* pattern.findall(text): the tokens the regular expression matches, in order
FindAll(pattern, toks) ==
    LET hits == SelectSeq(toks, LAMBDA t : Stem[t] \in pattern)
    IN  [i \in 1..Len(hits) |-> Found[hits[i]]]

(***************************************************************************)
(* The classifier result handed to the fusion step.                        *)
(***************************************************************************)
Classification(label, conf, positive) ==
    [predicted_label |-> label, confidence |-> conf, is_positive |-> positive]

\* the confidences the external classifiers are taken to return
ConfidenceGrid == {Frac(k, 10) : k \in 0..10}

(***************************************************************************)
(* SMSAnalyzer                                                             *)
(***************************************************************************)
SmsCategories ==
    <<"urgency", "authority", "payment", "otp_verification", "threats",
      "personal_info">>

\* every regular expression of self.sms_scam_patterns, as the set of the
\* vocabulary's stems it matches
sms_scam_patterns ==
    [urgency          |-> <<{"urgent", "immediately"}, {}, {}>>,
     authority        |-> <<{}, {"arrest", "warrant"}, {}>>,
     payment          |-> <<{"bitcoin"}, {}, {}>>,
     otp_verification |-> <<{}, {}, {}>>,
     threats          |-> <<{"arrest", "warrant"}, {}, {}>>,
     personal_info    |-> <<{}, {}, {}>>]

\* _preprocess_sms on one token: telephone numbers, e-mail addresses and URLs
\* become placeholders; the vocabulary has no contraction
sms_preprocess_token(t) ==
    CASE t = "5551234567"                                 -> "[PHONE]"
      [] t \in {"http://bit.ly/x", "http://pay.tk/login", "http://bit.ly.tk/login"} -> "[URL]"
      [] OTHER                                            -> t

sms_preprocess(message) ==
    [i \in 1..Len(message) |-> sms_preprocess_token(message[i])]

\* "score += len(matches) * 0.2"
sms_pattern_weight(n) == Frac(2 * n, 10)

sms_analyze_patterns(message) ==
    LET found(cat) ==
            Flatten([i \in 1..Len(sms_scam_patterns[cat]) |->
                        FindAll(sms_scam_patterns[cat][i], message)])
        score(cat) ==
            SumSeq([i \in 1..Len(sms_scam_patterns[cat]) |->
                sms_pattern_weight(Len(FindAll(sms_scam_patterns[cat][i], message)))])
        pattern_scores == [cat \in Range(SmsCategories) |-> Min(score(cat), ONE)]
        total == SumSeq([i \in 1..Len(SmsCategories) |-> pattern_scores[SmsCategories[i]]])
    IN  [pattern_scores       |-> pattern_scores,
         found_patterns       |-> [cat \in Range(SmsCategories) |-> found(cat)],
         total_pattern_score  |-> Times(total, 1, Len(SmsCategories)),
         high_risk_categories |->
            {cat \in Range(SmsCategories) : pattern_scores[cat] > Frac(5, 10)}]

\* the statistics with thresholds that overlap: a message of 11 to 19
\* characters is both very short and very long
sms_analyze_statistics_overlapping(message) ==
    LET length == TextLen(message)
        \* "x / len(message) if message else 0", compared by cross-multiplication
        excessive_caps    == length > 0 /\ CountOf(message, "upper") * 10 > 3 * length
        excessive_digits  == length > 0 /\ CountOf(message, "digit") * 10 > 2 * length
        excessive_special == length > 0 /\ CountOf(message, "special") * 10 > 1 * length
        very_short == length < 20
        very_long  == length > 10
        risk_factors ==
            <<excessive_caps, excessive_digits, excessive_special, very_short, very_long>>
    IN  [length            |-> length,
         excessive_caps    |-> excessive_caps,
         excessive_digits  |-> excessive_digits,
         excessive_special |-> excessive_special,
         very_short        |-> very_short,
         very_long         |-> very_long,
         statistical_score |-> Frac(CountTrue(risk_factors), Len(risk_factors))]

sms_analyze_statistics(message) ==
    LET length == TextLen(message)
        \* "x / len(message) if message else 0", compared by cross-multiplication
        excessive_caps    == length > 0 /\ CountOf(message, "upper") * 10 > 3 * length
        excessive_digits  == length > 0 /\ CountOf(message, "digit") * 10 > 2 * length
        excessive_special == length > 0 /\ CountOf(message, "special") * 10 > 1 * length
        very_short == length < 20
        very_long  == length > 200
        risk_factors ==
            <<excessive_caps, excessive_digits, excessive_special, very_short, very_long>>
    IN  [length            |-> length,
         excessive_caps    |-> excessive_caps,
         excessive_digits  |-> excessive_digits,
         excessive_special |-> excessive_special,
         very_short        |-> very_short,
         very_long         |-> very_long,
         statistical_score |-> Frac(CountTrue(risk_factors), Len(risk_factors))]

\* what the regular expressions of _analyze_sender see in a sender number
PhoneShape(all_digits, n, repeated, sequential) ==
    [all_digits |-> all_digits, length |-> n, repeated4 |-> repeated,
     sequential |-> sequential]

SmsSenders ==
    ("555-0123"    :> PhoneShape(FALSE, 8, FALSE, FALSE)) @@
    ("5550001111"  :> PhoneShape(TRUE, 10, TRUE, FALSE))  @@
    ("1234567890"  :> PhoneShape(TRUE, 10, FALSE, TRUE))  @@
    ("12345678901" :> PhoneShape(TRUE, 11, FALSE, TRUE))  @@
    ("8005550199"  :> PhoneShape(TRUE, 10, FALSE, FALSE)) @@
    ("72000"       :> PhoneShape(TRUE, 5, FALSE, FALSE))  @@
    ("11112345678" :> PhoneShape(TRUE, 11, TRUE, TRUE))

sms_analyze_sender(sender_number) ==
    IF sender_number \in {None, ""}
    THEN [score |-> 0, reputation |-> "unknown", reasons |-> <<>>]
    ELSE
    LET s == SmsSenders[sender_number]
        digits ==
            IF s.all_digits /\ s.length = 10
                THEN <<Frac(1, 10), <<"Standard 10-digit number">>>>
            ELSE IF s.all_digits /\ s.length = 11
                THEN <<Frac(2, 10), <<"11-digit number (suspicious)">>>>
            ELSE IF s.all_digits /\ s.length \in 5..9
                THEN <<Frac(3, 10), <<"Short number (suspicious)">>>>
            ELSE <<0, <<>>>>
        repeated ==
            IF s.repeated4 THEN <<Frac(4, 10), <<"Repeated digits pattern">>>>
            ELSE <<0, <<>>>>
        sequential ==
            IF s.sequential THEN <<Frac(3, 10), <<"Sequential digit pattern">>>>
            ELSE <<0, <<>>>>
        score == digits[1] + repeated[1] + sequential[1]
    IN  [score      |-> Min(score, ONE),
         reputation |-> IF score > Frac(3, 10) THEN "suspicious"
                        ELSE IF score < Frac(1, 10) THEN "legitimate"
                        ELSE "neutral",
         reasons    |-> digits[2] \o repeated[2] \o sequential[2]]

sms_weights ==
    [spam_classification |-> 40, pattern_analysis |-> 30,
     statistical_analysis |-> 20, sender_analysis |-> 10]

\* "spam_score = confidence if is_spam else 0.0"
sms_spam_score(spam_classification) ==
    IF spam_classification.is_positive THEN spam_classification.confidence ELSE 0

\* "Calculate weighted average"
sms_weighted_score(spam_score, pattern_score, statistical_score, sender_score) ==
    Times(spam_score, sms_weights.spam_classification, 100) +
    Times(pattern_score, sms_weights.pattern_analysis, 100) +
    Times(statistical_score, sms_weights.statistical_analysis, 100) +
    Times(sender_score, sms_weights.sender_analysis, 100)

sms_calculate_risk_score(spam_classification, pattern_analysis, statistical_analysis, sender_analysis) ==
    LET spam_score == sms_spam_score(spam_classification)
        risk_score ==
            sms_weighted_score(spam_score, pattern_analysis.total_pattern_score,
                               statistical_analysis.statistical_score,
                               sender_analysis.score)
    IN  Min(risk_score, ONE)

\* the table with MEDIUM starting above 0.5, not at it
sms_determine_risk_level_above(risk_score) ==
    IF risk_score >= Frac(8, 10) THEN <<"HIGH", TRUE>>
    ELSE IF risk_score > Frac(5, 10) THEN <<"MEDIUM", FALSE>>
    ELSE <<"LOW", FALSE>>

sms_determine_risk_level(risk_score) ==
    IF risk_score >= Frac(8, 10) THEN <<"HIGH", TRUE>>
    ELSE IF risk_score >= Frac(5, 10) THEN <<"MEDIUM", FALSE>>
    ELSE <<"LOW", FALSE>>

sms_generate_explanation(spam_classification, pattern_analysis, statistical_analysis, sender_analysis) ==
    LET explanations ==
            (IF spam_classification.is_positive /\
                spam_classification.confidence > Frac(7, 10)
             THEN <<"AI detected spam">> ELSE <<>>) \o
            (IF pattern_analysis.high_risk_categories # {}
             THEN <<"High-risk patterns detected">> ELSE <<>>) \o
            (IF statistical_analysis.excessive_caps
             THEN <<"Excessive use of capital letters">> ELSE <<>>) \o
            (IF statistical_analysis.excessive_digits
             THEN <<"Excessive use of numbers">> ELSE <<>>) \o
            (IF statistical_analysis.very_short
             THEN <<"Unusually short message">> ELSE <<>>) \o
            (IF statistical_analysis.very_long
             THEN <<"Unusually long message">> ELSE <<>>) \o
            (IF sender_analysis.reasons # <<>>
             THEN <<"Sender issues">> ELSE <<>>)
    IN  IF explanations # <<>> THEN explanations
        ELSE <<"No significant scam indicators detected">>

sms_extract_triggers(pattern_analysis) ==
    UNION {Range(Take(pattern_analysis.found_patterns[cat], 3)) :
              cat \in {c \in Range(SmsCategories) :
                          pattern_analysis.pattern_scores[c] > Frac(5, 10)}}

(***************************************************************************)
(* EmailAnalyzer                                                           *)
(***************************************************************************)
EmailCategories ==
    <<"urgency", "authority", "payment", "phishing_links", "suspicious_domains",
      "threats", "personal_info", "spoofing", "lottery_scams", "fake_legitimacy">>

\* every regular expression of self.email_phishing_patterns, as the set of the
\* vocabulary's stems it matches (the content is lower-cased and its URLs are
\* placeholders by the time the patterns run)
email_phishing_patterns ==
    [urgency            |-> <<{"urgent", "immediately"}, {}, {}, {}>>,
     authority          |-> <<{}, {"arrest", "warrant"}, {}, {}>>,
     payment            |-> <<{"bitcoin"}, {}, {}, {}>>,
     phishing_links     |-> <<{}, {}, {}, {}>>,
     suspicious_domains |-> <<{}, {}, {}>>,
     threats            |-> <<{"arrest", "warrant"}, {}, {}, {}>>,
     personal_info      |-> <<{}, {}, {}, {}>>,
     spoofing           |-> <<{}, {}, {}>>,
     lottery_scams      |-> <<{}, {}, {}, {}, {}, {}>>,
     fake_legitimacy    |-> <<{}, {"verified"}, {}, {}>>]

\* category_weights of _analyze_patterns, in tenths
category_weights ==
    [lottery_scams |-> 5, urgency |-> 4, authority |-> 3, payment |-> 4,
     phishing_links |-> 6, suspicious_domains |-> 7, threats |-> 5,
     personal_info |-> 4, spoofing |-> 5, fake_legitimacy |-> -2]

Abs(x) == IF x < 0 THEN -x ELSE x

Urls ==
    {"http://bit.ly/x", "http://pay.tk/login", "http://example.com/a",
     "http://bit.ly.tk/login"}

\* str.lower() on one token
Lower(t) ==
    CASE t = "URGENT"   -> "urgent"
      [] t = "Subject:" -> "subject:"
      [] t = "Body:"    -> "body:"
      [] OTHER          -> t

\* the placeholders _preprocess_email puts for URLs and telephone numbers
email_placeholder(t) ==
    CASE t \in Urls       -> "[URL]"
      [] t = "5551234567" -> "[PHONE]"
      [] OTHER            -> t

HeaderNames == {"from:", "to:", "subject:", "date:", "message-id:"}

\* len(content.strip()) of f"Subject: {subject}\n\nBody: {body}"
email_raw_length(subject, body) ==
    Chars["Subject:"].len + 1 + TextLen(subject) + 2 + Chars["Body:"].len +
    (IF body = <<>> THEN 0 ELSE 1 + TextLen(body))

\* _preprocess_email on the lines of full_content
email_preprocess(subject, body) ==
    IF email_raw_length(subject, body) < 10 THEN <<"short content">>
    ELSE
    LET lines   == <<<<"Subject:">> \o subject, <<>>, <<"Body:">> \o body>>
        lowered == [i \in 1..Len(lines) |-> [j \in 1..Len(lines[i]) |-> Lower(lines[i][j])]]
        \* re.sub(r'^(from|to|subject|date|message-id):.*$', '', ..., re.MULTILINE)
        kept    == SelectSeq(lowered, LAMBDA l : l = <<>> \/ l[1] \notin HeaderNames)
        content == Flatten(kept)
    IN  [i \in 1..Len(content) |-> email_placeholder(content[i])]

\* the contribution with the sign of the weight dropped
email_pattern_contribution_unsigned(n, weight) == Frac(3 * n * Abs(weight), 100)

\* "base_score = len(matches) * 0.3; score += base_score * weight"
email_pattern_contribution(n, weight) == Frac(3 * n * weight, 100)

email_analyze_patterns(content) ==
    LET found(cat) ==
            Flatten([i \in 1..Len(email_phishing_patterns[cat]) |->
                        FindAll(email_phishing_patterns[cat][i], content)])
        score(cat) ==
            SumSeq([i \in 1..Len(email_phishing_patterns[cat]) |->
                email_pattern_contribution(
                    Len(FindAll(email_phishing_patterns[cat][i], content)),
                    category_weights[cat])])
        pattern_scores == [cat \in Range(EmailCategories) |-> Min(score(cat), ONE)]
        total_weighted_score ==
            SumSeq([i \in 1..Len(EmailCategories) |->
                Times(pattern_scores[EmailCategories[i]],
                      Abs(category_weights[EmailCategories[i]]), 10)])
        \* in tenths
        total_weight ==
            SumSeq([i \in 1..Len(EmailCategories) |->
                Abs(category_weights[EmailCategories[i]])])
    IN  [pattern_scores       |-> pattern_scores,
         found_patterns       |-> [cat \in Range(EmailCategories) |-> found(cat)],
         total_pattern_score  |->
            IF total_weight > 0 THEN Times(total_weighted_score, 10, total_weight)
            ELSE 0,
         high_risk_categories |->
            {cat \in Range(EmailCategories) : pattern_scores[cat] > Frac(2, 10)}]

\* content.count('!')
Exclamations(content) ==
    Cardinality({i \in 1..Len(content) : content[i] = "arrest!"})

email_analyze_statistics(content) ==
    LET length == TextLen(content)
        exclamation_count == Exclamations(content)
        \* re.findall(r'http[s]?://[^\s]+', content)
        link_count == Len(SelectSeq(content, LAMBDA t : t \in Urls))
        excessive_caps    == length > 0 /\ CountOf(content, "upper") * 10 > 2 * length
        excessive_digits  == length > 0 /\ CountOf(content, "digit") * 100 > 15 * length
        excessive_special == length > 0 /\ CountOf(content, "special") * 100 > 8 * length
        excessive_exclamations == exclamation_count > 3
        excessive_links   == link_count > 2
        very_short == length < 50
        very_long  == length > 2000
        risk_factors ==
            <<excessive_caps, excessive_digits, excessive_special,
              excessive_exclamations, excessive_links, very_short, very_long>>
    IN  [length                 |-> length,
         excessive_caps         |-> excessive_caps,
         excessive_digits       |-> excessive_digits,
         excessive_special      |-> excessive_special,
         excessive_exclamations |-> excessive_exclamations,
         excessive_links        |-> excessive_links,
         very_short             |-> very_short,
         very_long              |-> very_long,
         statistical_score      |-> Frac(CountTrue(risk_factors), Len(risk_factors))]

\* what _analyze_sender tests in a sender address
AddressShape(tld, free, legit, digits, special) ==
    [suspicious_tld |-> tld, free_provider |-> free, legitimate_domain |-> legit,
     long_digits |-> digits, special_chars |-> special]

EmailSenders ==
    ("test@example.com"           :> AddressShape(FALSE, FALSE, FALSE, FALSE, FALSE)) @@
    ("support@microsoft.com"      :> AddressShape(FALSE, FALSE, TRUE, FALSE, FALSE))  @@
    ("bob@gmail.com"              :> AddressShape(FALSE, TRUE, FALSE, FALSE, FALSE))  @@
    ("winner@prize.tk"            :> AddressShape(TRUE, FALSE, FALSE, FALSE, FALSE))  @@
    ("lucky_1234567890@claim.top" :> AddressShape(TRUE, FALSE, FALSE, TRUE, TRUE))

email_analyze_sender(sender_email) ==
    IF sender_email \in {None, ""}
    THEN [score |-> 0, reputation |-> "unknown", reasons |-> <<>>]
    ELSE
    LET s == EmailSenders[sender_email]
        part(cond, tenths, reason) ==
            IF cond THEN <<Frac(tenths, 10), <<reason>>>> ELSE <<0, <<>>>>
        parts ==
            <<part(s.suspicious_tld, 4, "Suspicious TLD"),
              part(s.free_provider, 1, "Free email provider"),
              part(s.legitimate_domain, -2, "Legitimate domain"),
              part(s.long_digits, 3, "Long number sequence in email"),
              part(s.special_chars, 2, "Special characters in email")>>
        score == SumSeq([i \in 1..Len(parts) |-> parts[i][1]])
    IN  [score      |-> Min(score, ONE),
         reputation |-> IF score > Frac(3, 10) THEN "suspicious"
                        ELSE IF score < Frac(-1, 10) THEN "legitimate"
                        ELSE "neutral",
         reasons    |-> Flatten([i \in 1..Len(parts) |-> parts[i][2]])]

\* what _analyze_links tests in one URL
UrlShape ==
    ("http://bit.ly/x"      :> [shortener |-> TRUE,  suspicious |-> FALSE, keyword |-> FALSE]) @@
    ("http://pay.tk/login"  :> [shortener |-> FALSE, suspicious |-> TRUE,  keyword |-> TRUE])  @@
    ("http://example.com/a" :> [shortener |-> FALSE, suspicious |-> FALSE, keyword |-> FALSE]) @@
    ("http://bit.ly.tk/login" :> [shortener |-> TRUE, suspicious |-> TRUE, keyword |-> TRUE])

\* the score of one URL, in tenths
email_link_score(url) ==
    (IF UrlShape[url].shortener THEN 4 ELSE 0) +
    (IF UrlShape[url].suspicious THEN 5 ELSE 0) +
    (IF UrlShape[url].keyword THEN 3 ELSE 0)

\* the scores of the URLs added up and not divided by their number
email_analyze_links_sum(body) ==
    LET urls == SelectSeq(body, LAMBDA t : t \in Urls)
        suspicious_links == SelectSeq(urls, LAMBDA u : email_link_score(u) > 2)
        score == SumSeq([i \in 1..Len(suspicious_links) |->
                            email_link_score(suspicious_links[i])])
    IN  IF urls = <<>>
        THEN [score |-> 0, suspicious_links |-> <<>>, reasons |-> <<>>]
        ELSE [score            |-> Min(Frac(score, 10), ONE),
              suspicious_links |-> suspicious_links,
              reasons          |-> <<>>]

email_analyze_links(body) ==
    LET urls == SelectSeq(body, LAMBDA t : t \in Urls)
        suspicious_links == SelectSeq(urls, LAMBDA u : email_link_score(u) > 2)
        score == SumSeq([i \in 1..Len(suspicious_links) |->
                            email_link_score(suspicious_links[i])])
    IN  IF urls = <<>>
        THEN [score |-> 0, suspicious_links |-> <<>>, reasons |-> <<>>]
        ELSE [score            |-> Min(Frac(score, 10 * Len(urls)), ONE),
              suspicious_links |-> suspicious_links,
              reasons          |-> <<>>]

email_base_weights ==
    [phishing_classification |-> 35, pattern_analysis |-> 35,
     statistical_analysis |-> 10, sender_analysis |-> 10, link_analysis |-> 10]

\* the weights after the dynamic adjustments
email_weights(pattern_score, link_score, sender_score) ==
    LET w1 == IF pattern_score > Frac(3, 10)
              THEN [email_base_weights EXCEPT !.pattern_analysis = 45,
                                              !.phishing_classification = 30]
              ELSE email_base_weights
        w2 == IF link_score > Frac(5, 10)
              THEN [w1 EXCEPT !.link_analysis = 20, !.phishing_classification = 30]
              ELSE w1
        w3 == IF sender_score > Frac(5, 10)
              THEN [w2 EXCEPT !.sender_analysis = 20, !.phishing_classification = 30]
              ELSE w2
    IN  w3

\* the clamp without its lower bound
email_clamp_no_floor(risk_score) == Min(risk_score, ONE)

\* "risk_score = max(0.0, min(risk_score, 1.0))"
email_clamp(risk_score) == Max(0, Min(risk_score, ONE))

\* the reduction that looks at the label and the pattern score only
email_reduces_false_positive_any_links(phishing_classification, pattern_score, link_score) ==
    /\ phishing_classification.predicted_label \in {"legitimate", "business"}
    /\ phishing_classification.confidence > Frac(6, 10)
    /\ pattern_score < Frac(3, 10)

\* "Reduce false positives for legitimate business emails": the condition
email_reduces_false_positive(phishing_classification, pattern_score, link_score) ==
    /\ phishing_classification.predicted_label \in {"legitimate", "business"}
    /\ phishing_classification.confidence > Frac(6, 10)
    /\ pattern_score < Frac(3, 10)
    /\ link_score < Frac(3, 10)

\* the boost without its cap at 1.0
email_phishing_score_uncapped(phishing_classification) ==
    IF phishing_classification.is_positive
    THEN (IF phishing_classification.confidence > Frac(8, 10)
          THEN Times(phishing_classification.confidence, 11, 10)
          ELSE phishing_classification.confidence)
    ELSE 0

\* "Phishing classification score with confidence boost"
email_phishing_score(phishing_classification) ==
    IF phishing_classification.is_positive
    THEN (IF phishing_classification.confidence > Frac(8, 10)
          THEN Min(Times(phishing_classification.confidence, 11, 10), ONE)
          ELSE phishing_classification.confidence)
    ELSE 0

\* "Calculate weighted average", with the weights after the adjustments
email_weighted_score(phishing_score, pattern_score, statistical_score, sender_score, link_score) ==
    LET weights == email_weights(pattern_score, link_score, sender_score)
    IN  Times(phishing_score, weights.phishing_classification, 100) +
        Times(pattern_score, weights.pattern_analysis, 100) +
        Times(statistical_score, weights.statistical_analysis, 100) +
        Times(sender_score, weights.sender_analysis, 100) +
        Times(link_score, weights.link_analysis, 100)

email_high_risk_indicators(phishing_score, pattern_score, link_score, sender_score) ==
    CountTrue(<<phishing_score > Frac(7, 10), pattern_score > Frac(4, 10),
                link_score > Frac(6, 10), sender_score > Frac(6, 10)>>)

\* "bonus_factor = 1.0 + (0.15 * (high_risk_indicators - 1))", in twentieths
email_apply_bonus(risk_score, high_risk_indicators) ==
    IF high_risk_indicators >= 2
    THEN Times(risk_score, 20 + 3 * (high_risk_indicators - 1), 20)
    ELSE risk_score

email_calculate_risk_score(phishing_classification, pattern_analysis, statistical_analysis, sender_analysis, link_analysis) ==
    LET phishing_score    == email_phishing_score(phishing_classification)
        pattern_score     == pattern_analysis.total_pattern_score
        statistical_score == statistical_analysis.statistical_score
        sender_score      == sender_analysis.score
        link_score        == link_analysis.score
        weighted ==
            email_weighted_score(phishing_score, pattern_score, statistical_score,
                                 sender_score, link_score)
        bonused ==
            email_apply_bonus(weighted,
                email_high_risk_indicators(phishing_score, pattern_score,
                                           link_score, sender_score))
        dampened ==
            IF email_reduces_false_positive(phishing_classification, pattern_score,
                                            link_score)
            THEN Times(bonused, 1, 2)
            ELSE bonused
    IN  email_clamp(dampened)

email_determine_risk_level(risk_score) ==
    IF risk_score >= Frac(25, 100) THEN <<"HIGH", TRUE>>
    ELSE IF risk_score >= Frac(12, 100) THEN <<"MEDIUM", TRUE>>
    ELSE <<"LOW", FALSE>>

email_generate_explanation(phishing_classification, pattern_analysis, statistical_analysis, sender_analysis, link_analysis) ==
    LET explanations ==
            (IF phishing_classification.is_positive /\
                phishing_classification.confidence > Frac(7, 10)
             THEN <<"AI detected phishing">> ELSE <<>>) \o
            (IF pattern_analysis.high_risk_categories # {}
             THEN <<"High-risk patterns detected">> ELSE <<>>) \o
            (IF statistical_analysis.excessive_caps
             THEN <<"Excessive use of capital letters">> ELSE <<>>) \o
            (IF statistical_analysis.excessive_links
             THEN <<"Excessive number of links">> ELSE <<>>) \o
            (IF statistical_analysis.excessive_exclamations
             THEN <<"Excessive use of exclamation marks">> ELSE <<>>) \o
            (IF sender_analysis.reasons # <<>>
             THEN <<"Sender issues">> ELSE <<>>) \o
            (IF link_analysis.suspicious_links # <<>>
             THEN <<"Suspicious links detected">> ELSE <<>>)
    IN  IF explanations # <<>> THEN explanations
        ELSE <<"No significant phishing indicators detected">>

email_extract_triggers(pattern_analysis) ==
    UNION {Range(Take(pattern_analysis.found_patterns[cat], 3)) :
              cat \in {c \in Range(EmailCategories) :
                          pattern_analysis.pattern_scores[c] > Frac(2, 10)}}

(***************************************************************************)
(* ChatAnalyzer                                                            *)
(***************************************************************************)
ChatCategories ==
    <<"romance_scam", "investment_scam", "tech_support_scam", "gift_card_scam",
      "fake_job_scam", "crypto_scam", "urgency_pressure", "personal_info_request">>

\* every regular expression of self.chat_scam_patterns, as the set of the
\* vocabulary's stems it matches
chat_scam_patterns ==
    [romance_scam          |-> <<{}, {}, {}, {"urgent"}, {}>>,
     investment_scam       |-> <<{"bitcoin"}, {}, {}, {}, {}, {}, {}, {}, {}>>,
     tech_support_scam     |-> <<{}, {}, {}, {}, {"urgent", "immediately"}>>,
     gift_card_scam        |-> <<{}, {}, {"urgent"}, {}, {}>>,
     fake_job_scam         |-> <<{}, {}, {}, {"urgent"}, {}>>,
     crypto_scam           |-> <<{"bitcoin"}, {}, {}, {}, {}>>,
     urgency_pressure      |-> <<{"urgent", "immediately"}, {}, {}, {}, {}>>,
     personal_info_request |-> <<{}, {}, {}, {}, {}>>]

\* the categories whose score _analyze_patterns doubles
ChatBoosted == {"investment_scam", "romance_scam", "crypto_scam", "fake_job_scam"}

\* the categories _analyze_patterns weights twice in the total
ChatHighRisk ==
    {"investment_scam", "romance_scam", "crypto_scam", "fake_job_scam",
     "tech_support_scam", "gift_card_scam"}

\* a conversation is given as runs: each message with the number of times it
\* is sent in a row
Expand(runs) ==
    Flatten([i \in 1..Len(runs) |-> [j \in 1..runs[i].times |-> runs[i].text]])

\* _preprocess_chat on one token: URLs and telephone numbers become placeholders
chat_preprocess_token(t) ==
    CASE t \in Urls       -> "[URL]"
      [] t = "5551234567" -> "[PHONE]"
      [] OTHER            -> t

\* " ".join(messages), preprocessed
chat_preprocess(messages) ==
    LET full_conversation == Flatten(messages)
    IN  [i \in 1..Len(full_conversation) |-> chat_preprocess_token(full_conversation[i])]

\* "base_weight = 0.5 if len(matches) > 1 else 0.4; score += len(matches) * base_weight";
\* two matches give 1.0, the cap of a category score, and more matches are
\* counted as two
chat_pattern_contribution(n) == Frac(Min(n, 2) * (IF n > 1 THEN 5 ELSE 4), 10)

chat_analyze_patterns(conversation) ==
    LET found(cat) ==
            Flatten([i \in 1..Len(chat_scam_patterns[cat]) |->
                        FindAll(chat_scam_patterns[cat][i], conversation)])
        raw(cat) ==
            SumSeq([i \in 1..Len(chat_scam_patterns[cat]) |->
                chat_pattern_contribution(
                    Len(FindAll(chat_scam_patterns[cat][i], conversation)))])
        score(cat) ==
            IF cat \in ChatBoosted THEN Min(2 * Min(raw(cat), ONE), ONE) ELSE raw(cat)
        pattern_scores == [cat \in Range(ChatCategories) |-> Min(score(cat), ONE)]
        weight(cat) == IF cat \in ChatHighRisk THEN 2 ELSE 1
        total_weight ==
            SumSeq([i \in 1..Len(ChatCategories) |-> weight(ChatCategories[i])])
        \* weighted_score / total_weight, each term divided before it is added
        weighted_score ==
            SumSeq([i \in 1..Len(ChatCategories) |->
                Times(pattern_scores[ChatCategories[i]], weight(ChatCategories[i]),
                      total_weight)])
    IN  [pattern_scores       |-> pattern_scores,
         found_patterns       |-> [cat \in Range(ChatCategories) |-> found(cat)],
         total_pattern_score  |->
            IF total_weight > 0 THEN weighted_score ELSE 0,
         high_risk_categories |->
            {cat \in Range(ChatCategories) : pattern_scores[cat] > Frac(5, 10)}]

\* the characteristics dictionary of an empty conversation has no key
NoCharacteristics == [empty |-> TRUE]

chat_analyze_conversation(messages) ==
    IF messages = <<>>
    THEN [score |-> 0, characteristics |-> NoCharacteristics]
    ELSE
    LET total_messages == Len(messages)
        short_messages ==
            Cardinality({i \in 1..Len(messages) : TextLen(messages[i]) < 20})
        rapid_messaging ==
            IF Len(messages) > 1 /\ total_messages > 10 THEN 1 ELSE 0
        unique_messages == Cardinality(Range(messages))
        \* repetition_ratio = 1 - unique_messages / total_messages, as the
        \* pair <<total - unique, total>>
        repeated == total_messages - unique_messages
        risk_factors ==
            (IF short_messages * 10 > 8 * total_messages THEN <<4>> ELSE <<>>) \o
            (IF rapid_messaging = 1 THEN <<6>> ELSE <<>>) \o
            (IF repeated * 10 > 5 * total_messages THEN <<7>> ELSE <<>>) \o
            (IF total_messages > 20 THEN <<3>> ELSE <<>>)
    IN  [score |->
            IF risk_factors # <<>>
            THEN Frac(SumSeq(risk_factors), 10 * Len(risk_factors)) ELSE 0,
         characteristics |->
            [empty              |-> FALSE,
             total_messages     |-> total_messages,
             short_messages     |-> short_messages,
             rapid_messaging    |-> rapid_messaging,
             repeated_messages  |-> repeated]]

\* what _analyze_sender tests in a user name
NameShape(digits, special, n, keyword) ==
    [many_digits |-> digits, special_chars |-> special, length |-> n,
     keyword |-> keyword]

ChatSenders ==
    ("bob"                            :> NameShape(FALSE, FALSE, 3, FALSE)) @@
    ("admin"                          :> NameShape(FALSE, FALSE, 5, TRUE))  @@
    ("x!"                             :> NameShape(FALSE, TRUE, 2, FALSE))  @@
    ("support_12345678_official_help" :> NameShape(TRUE, FALSE, 30, TRUE))

chat_analyze_sender(sender_info) ==
    IF sender_info \in {None, ""}
    THEN [score |-> 0, reputation |-> "unknown", reasons |-> <<>>]
    ELSE
    LET s == ChatSenders[sender_info]
        part(cond, tenths, reason) ==
            IF cond THEN <<Frac(tenths, 10), <<reason>>>> ELSE <<0, <<>>>>
        parts ==
            <<part(s.many_digits, 3, "Username contains many numbers"),
              part(s.special_chars, 2, "Username contains special characters"),
              part(s.length < 3, 4, "Very short username"),
              part(s.length > 20, 2, "Very long username"),
              part(s.keyword, 3, "Username contains suspicious keywords")>>
        score == SumSeq([i \in 1..Len(parts) |-> parts[i][1]])
    IN  [score      |-> Min(score, ONE),
         reputation |-> IF score > Frac(3, 10) THEN "suspicious"
                        ELSE IF score < Frac(1, 10) THEN "legitimate"
                        ELSE "neutral",
         reasons    |-> Flatten([i \in 1..Len(parts) |-> parts[i][2]])]

\* _analyze_sentiment; sentiment is what the sentiment classifier does on this
\* call: "none" (not loaded), "raise", or the label it gives every message
chat_analyze_sentiment(messages, sentiment) ==
    LET neutral  == [score |-> 0, sentiment |-> "neutral", reasons |-> <<>>]
        analysed == SelectSeq(Take(messages, 10), LAMBDA m : TextLen(m) > 10)
    IN  IF sentiment = "none" \/ messages = <<>> THEN neutral
        ELSE IF analysed = <<>> THEN neutral
        ELSE IF sentiment = "raise" THEN neutral
        ELSE IF sentiment = "LABEL_0"
            THEN [score |-> Frac(4, 10), sentiment |-> "negative",
                  reasons |-> <<"Highly negative sentiment">>]
        ELSE IF sentiment = "LABEL_2"
            THEN [score |-> Frac(3, 10), sentiment |-> "positive",
                  reasons |-> <<"Overly positive sentiment (potential love bombing)">>]
        ELSE [score |-> Frac(2, 10), sentiment |-> "neutral",
              reasons |-> <<"Very neutral sentiment (potential bot)">>]

chat_weights ==
    [scam_classification |-> 30, pattern_analysis |-> 50,
     conversation_analysis |-> 15, sender_analysis |-> 5, sentiment_analysis |-> 0]

\* "return min(risk_score, 1.0)"
chat_clamp(risk_score) == Min(risk_score, ONE)

\* "use confidence if scam detected, otherwise 0 (like SMS)"
chat_scam_score(scam_classification) ==
    IF scam_classification.is_positive THEN scam_classification.confidence ELSE 0

\* "Calculate weighted average"
chat_weighted_score(scam_score, pattern_score, conversation_score, sender_score, sentiment_score) ==
    Times(scam_score, chat_weights.scam_classification, 100) +
    Times(pattern_score, chat_weights.pattern_analysis, 100) +
    Times(conversation_score, chat_weights.conversation_analysis, 100) +
    Times(sender_score, chat_weights.sender_analysis, 100) +
    Times(sentiment_score, chat_weights.sentiment_analysis, 100)

chat_high_risk_indicators(scam_score, pattern_score, conversation_score, sender_score) ==
    CountTrue(<<scam_score > Frac(6, 10), pattern_score > Frac(3, 10),
                conversation_score > Frac(3, 10), sender_score > Frac(4, 10)>>)

\* "bonus_factor = 1.0 + (0.3 * high_risk_indicators)", in tenths
chat_apply_bonus(risk_score, high_risk_indicators) ==
    IF high_risk_indicators >= 1
    THEN Times(risk_score, 10 + 3 * high_risk_indicators, 10)
    ELSE risk_score

chat_calculate_risk_score(scam_classification, pattern_analysis, conversation_analysis, sender_analysis, sentiment_analysis) ==
    LET scam_score         == chat_scam_score(scam_classification)
        pattern_score      == pattern_analysis.total_pattern_score
        conversation_score == conversation_analysis.score
        sender_score       == sender_analysis.score
        sentiment_score    == 0
        weighted ==
            chat_weighted_score(scam_score, pattern_score, conversation_score,
                                sender_score, sentiment_score)
        bonused ==
            chat_apply_bonus(weighted,
                chat_high_risk_indicators(scam_score, pattern_score,
                                          conversation_score, sender_score))
    IN  chat_clamp(bonused)

chat_determine_risk_level(risk_score) ==
    IF risk_score >= Frac(3, 10) THEN <<"HIGH", TRUE>>
    ELSE IF risk_score >= Frac(15, 100) THEN <<"MEDIUM", TRUE>>
    ELSE <<"LOW", FALSE>>

\* _generate_explanation reads characteristics["rapid_messaging"] and
\* characteristics["repetition_ratio"]: a KeyError when the dictionary is empty
chat_explanation_raises(conversation_analysis) ==
    conversation_analysis.characteristics.empty

chat_generate_explanation(scam_classification, pattern_analysis, conversation_analysis, sender_analysis, sentiment_analysis) ==
    LET c == conversation_analysis.characteristics
        explanations ==
            (IF scam_classification.is_positive /\
                scam_classification.confidence > Frac(7, 10)
             THEN <<"AI detected scam">> ELSE <<>>) \o
            (IF pattern_analysis.high_risk_categories # {}
             THEN <<"High-risk patterns detected">> ELSE <<>>) \o
            (IF c.rapid_messaging = 1
             THEN <<"Rapid messaging pattern detected">> ELSE <<>>) \o
            \* repetition_ratio > 0.3
            (IF c.repeated_messages * 10 > 3 * c.total_messages
             THEN <<"High message repetition detected">> ELSE <<>>) \o
            (IF sender_analysis.reasons # <<>>
             THEN <<"Sender issues">> ELSE <<>>) \o
            (IF sentiment_analysis.reasons # <<>>
             THEN <<"Sentiment analysis">> ELSE <<>>)
    IN  IF explanations # <<>> THEN explanations
        ELSE <<"No significant scam indicators detected">>

chat_extract_triggers(pattern_analysis) ==
    UNION {Range(Take(pattern_analysis.found_patterns[cat], 3)) :
              cat \in {c \in Range(ChatCategories) :
                          pattern_analysis.pattern_scores[c] > Frac(3, 10)}}

(***************************************************************************)
(* The external classifiers.  What a classifier does when it is called is  *)
(* an input of the call: it raises, or it returns a label with a score.    *)
(***************************************************************************)
Raises == [raises |-> TRUE, label |-> "", score |-> 0]

Returns(label, score) == [raises |-> FALSE, label |-> label, score |-> score]

Unknown == Classification("unknown", 0, FALSE)

\* a call of a classifier: which one, and whether it raised
Called(classifier, outcome) == [classifier |-> classifier, raised |-> outcome.raises]

\* the result of a classify step: the classification and the calls of
\* classifiers it made, in order
Classified(result, calls) == [result |-> result, calls |-> calls]

sms_zero_shot_classification(env) ==
    IF env.secondary.raises THEN Unknown
    ELSE Classification(env.secondary.label, env.secondary.score,
                        env.secondary.label \in {"spam", "scam", "fraud"})

\* the classify step asking the zero-shot classifier as well when the primary
\* classifier has answered
sms_classify_spam_both(env) ==
    IF ~env.primary.raises
    THEN Classified(
            Classification(IF env.primary.label = "LABEL_1" THEN "spam" ELSE "ham",
                           env.primary.score, env.primary.label = "LABEL_1"),
            <<Called("primary", env.primary), Called("secondary", env.secondary)>>)
    ELSE Classified(sms_zero_shot_classification(env),
                    <<Called("primary", env.primary), Called("secondary", env.secondary)>>)

sms_classify_spam(env) ==
    IF ~env.primary.raises
    THEN Classified(
            Classification(IF env.primary.label = "LABEL_1" THEN "spam" ELSE "ham",
                           env.primary.score, env.primary.label = "LABEL_1"),
            <<Called("primary", env.primary)>>)
    ELSE Classified(sms_zero_shot_classification(env),
                    <<Called("primary", env.primary), Called("secondary", env.secondary)>>)

EmailPositiveLabels ==
    {"phishing", "spam", "fraud", "suspicious", "lottery_scam", "phishing_email"}

\* phishing_classifier is the backup model: None when it could not be loaded
email_classify_phishing(env, phishing_classifier) ==
    IF ~env.primary.raises
    THEN Classified(
            Classification(env.primary.label, env.primary.score,
                           env.primary.label \in EmailPositiveLabels),
            <<Called("primary", env.primary)>>)
    ELSE IF phishing_classifier # None /\ ~env.secondary.raises
    THEN LET is_phishing ==
                \/ env.secondary.label = "NEGATIVE" /\ env.secondary.score > Frac(6, 10)
                \/ env.secondary.score > Frac(8, 10)
         IN  Classified(
                Classification(IF is_phishing THEN "phishing" ELSE "legitimate",
                               env.secondary.score, is_phishing),
                <<Called("primary", env.primary), Called("secondary", env.secondary)>>)
    ELSE Classified(Unknown,
            IF phishing_classifier # None
            THEN <<Called("primary", env.primary), Called("secondary", env.secondary)>>
            ELSE <<Called("primary", env.primary)>>)

chat_zero_shot_classification(env) ==
    IF env.secondary.raises THEN Unknown
    ELSE Classification(env.secondary.label, env.secondary.score,
                        env.secondary.label \in {"scam", "fraud"})

\* scam_classifier is the primary model: None when it could not be loaded
chat_classify_scam(env, scam_classifier) ==
    IF scam_classifier = None
    THEN Classified(chat_zero_shot_classification(env),
                    <<Called("secondary", env.secondary)>>)
    ELSE IF ~env.primary.raises
    THEN Classified(
            Classification(IF env.primary.label = "LABEL_1" THEN "spam" ELSE "ham",
                           env.primary.score, env.primary.label = "LABEL_1"),
            <<Called("primary", env.primary)>>)
    ELSE Classified(chat_zero_shot_classification(env),
                    <<Called("primary", env.primary), Called("secondary", env.secondary)>>)

(***************************************************************************)
(* The analyses: everything analyze_sms, analyze_email and analyze_chat    *)
(* compute between the preprocessing and the result dictionary.            *)
(***************************************************************************)
\* a sender argument that is not a string (the analyzers do not check the
\* type; re.match, re.search and "in" raise TypeError on it)
NotAString == "<int>"

Result(channel, content, risk_score, level, classified, triggers, explanation, detailed_analysis, now) ==
    [channel        |-> channel,
     content        |-> content,
     risk_score     |-> risk_score,
     risk_level     |-> level[1],
     flagged        |-> level[2],
     confidence     |-> classified.result.confidence,
     classification |-> classified.result,
     triggers       |-> triggers,
     explanation    |-> explanation,
     detailed_analysis |-> detailed_analysis,
     analysis_id    |-> now]

\* what a call did: it returned a result dictionary or raised
Returned(result, calls, cache_hit) ==
    [outcome |-> "returned", result |-> <<result>>, calls |-> calls,
     cache_hit |-> cache_hit]

Raised(calls) ==
    [outcome |-> "raised", result |-> <<>>, calls |-> calls, cache_hit |-> FALSE]

sms_result(message, sender_number, classified, now) ==
    LET processed_message    == sms_preprocess(message)
        pattern_analysis     == sms_analyze_patterns(processed_message)
        statistical_analysis == sms_analyze_statistics(processed_message)
        sender_analysis      == sms_analyze_sender(sender_number)
        risk_score ==
            sms_calculate_risk_score(classified.result, pattern_analysis,
                                     statistical_analysis, sender_analysis)
    IN  Result("sms", message, risk_score, sms_determine_risk_level(risk_score),
               classified, sms_extract_triggers(pattern_analysis),
               sms_generate_explanation(classified.result, pattern_analysis,
                                        statistical_analysis, sender_analysis),
               [pattern_analysis     |-> pattern_analysis,
                statistical_analysis |-> statistical_analysis,
                sender_analysis      |-> sender_analysis],
               now)

analyze_sms(message, sender_number, env, now) ==
    LET classified == sms_classify_spam(env)
    IN  IF sender_number = NotAString THEN Raised(classified.calls)
        ELSE Returned(sms_result(message, sender_number, classified, now),
                      classified.calls, FALSE)

email_result(subject, body, sender_email, classified, now) ==
    LET processed_content    == email_preprocess(subject, body)
        pattern_analysis     == email_analyze_patterns(processed_content)
        statistical_analysis == email_analyze_statistics(processed_content)
        sender_analysis      == email_analyze_sender(sender_email)
        link_analysis        == email_analyze_links(body)
        risk_score ==
            email_calculate_risk_score(classified.result, pattern_analysis,
                                       statistical_analysis, sender_analysis,
                                       link_analysis)
    IN  Result("email", <<subject, body>>, risk_score,
               email_determine_risk_level(risk_score), classified,
               email_extract_triggers(pattern_analysis),
               email_generate_explanation(classified.result, pattern_analysis,
                                          statistical_analysis, sender_analysis,
                                          link_analysis),
               [pattern_analysis     |-> pattern_analysis,
                statistical_analysis |-> statistical_analysis,
                sender_analysis      |-> sender_analysis,
                link_analysis        |-> link_analysis],
               now)

chat_result(messages, sender_info, classified, sentiment, now) ==
    LET processed_conversation == chat_preprocess(messages)
        pattern_analysis       == chat_analyze_patterns(processed_conversation)
        conversation_analysis  == chat_analyze_conversation(messages)
        sender_analysis        == chat_analyze_sender(sender_info)
        sentiment_analysis     == chat_analyze_sentiment(messages, sentiment)
        risk_score ==
            chat_calculate_risk_score(classified.result, pattern_analysis,
                                      conversation_analysis, sender_analysis,
                                      sentiment_analysis)
    IN  Result("chat", messages, risk_score, chat_determine_risk_level(risk_score),
               classified, chat_extract_triggers(pattern_analysis),
               chat_generate_explanation(classified.result, pattern_analysis,
                                         conversation_analysis, sender_analysis,
                                         sentiment_analysis),
               [pattern_analysis      |-> pattern_analysis,
                conversation_analysis |-> conversation_analysis,
                sender_analysis       |-> sender_analysis,
                sentiment_analysis    |-> sentiment_analysis],
               now)

analyze_chat(messages, sender_info, env, scam_classifier, now) ==
    LET classified == chat_classify_scam(env, scam_classifier)
    IN  IF sender_info = NotAString THEN Raised(classified.calls)
        ELSE IF chat_explanation_raises(chat_analyze_conversation(messages))
        THEN Raised(classified.calls)
        ELSE Returned(chat_result(messages, sender_info, classified, env.sentiment, now),
                      classified.calls, FALSE)

(***************************************************************************)
(* The result cache of EmailAnalyzer: a dictionary, kept as the sequence   *)
(* of its entries in insertion order.  age counts the entries stored since *)
(* the entry was (it is not a field of the program).                       *)
(***************************************************************************)
\* the largest number of cached results (100 in the program, scaled down)
cache_max_size == 2

\* a + b on strings: the tokens of both, glued where they meet
Glue == "+"

Concat(a, b) ==
    IF a = <<>> THEN b ELSE IF b = <<>> THEN a ELSE a \o <<Glue>> \o b

\* f"{hash(subject + body + (sender_email or ''))}"; the hash is taken to be
\* injective
cache_key(subject, body, sender_email) ==
    Concat(Concat(subject, body),
           IF sender_email \in {None, ""} THEN <<>> ELSE <<sender_email>>)

CacheKeys(cache) == {cache[i].key : i \in 1..Len(cache)}

\* the lookup giving the result stored first, whatever the key
CacheGet_first(cache, key) == cache[1].result

\* self.analysis_cache[cache_key]
CacheGet(cache, key) ==
    cache[CHOOSE i \in 1..Len(cache) : cache[i].key = key].result

\* the eviction of the entry stored last
CacheEvictOldest_newest(cache) == SubSeq(cache, 1, Len(cache) - 1)

\* "del self.analysis_cache[next(iter(self.analysis_cache))]"
CacheEvictOldest(cache) == Tail(cache)

\* self.analysis_cache[cache_key] = result.copy()
CachePut(cache, key, result) ==
    IF key \in CacheKeys(cache)
    THEN [i \in 1..Len(cache) |->
            IF cache[i].key = key THEN [cache[i] EXCEPT !.result = result]
            ELSE cache[i]]
    ELSE [i \in 1..Len(cache) |-> [cache[i] EXCEPT !.age = @ + 1]] \o
         <<[key |-> key, result |-> result, age |-> 0]>>

\* the copy of a cached result a cache hit returns
CachedCopy(cached_result, now) == [cached_result EXCEPT !.analysis_id = now]

\* the store without the eviction
CacheStore_unbounded(cache, key, result) == CachePut(cache, key, result)

\* the cache after a result was computed and stored
CacheStore(cache, key, result) ==
    CachePut(IF Len(cache) >= cache_max_size THEN CacheEvictOldest(cache) ELSE cache,
             key, result)

\* the keys a store takes out of the cache
Evicted(cache, key, result) == CacheKeys(cache) \ CacheKeys(CacheStore(cache, key, result))

\* a cache miss: the result computed is stored and returned
CacheMiss(cache, key, result, calls) ==
    [call    |-> Returned(result, calls, FALSE),
     cache   |-> CacheStore(cache, key, result),
     evicted |-> Evicted(cache, key, result)]

\* the outcome of analyze_email, the cache it leaves and the keys it evicted
analyze_email(subject, body, sender_email, env, phishing_classifier, now, cache) ==
    IF sender_email = NotAString
    THEN [call |-> Raised(<<>>), cache |-> cache, evicted |-> {}]
    ELSE
    LET key == cache_key(subject, body, sender_email)
    IN  IF key \in CacheKeys(cache)
        THEN [call  |-> Returned(CachedCopy(CacheGet(cache, key), now), <<>>, TRUE),
              cache |-> cache, evicted |-> {}]
        ELSE
        LET classified == email_classify_phishing(env, phishing_classifier)
        IN  CacheMiss(cache, key,
                      email_result(subject, body, sender_email, classified, now),
                      classified.calls)

(***************************************************************************)
(* TextAnalyzer, which serves the channels other than SMS.  A content is   *)
(* a sequence of phrases; TextFound gives, for a phrase as preprocessed,   *)
(* the urgency and threat patterns that match in it and the keywords that  *)
(* occur in it as substrings ("official" holds "cia"), each keyword with   *)
(* its category and its place in the list of the category.                 *)
(***************************************************************************)
TextCategories ==
    <<"arrest", "urgency", "payment", "otp", "threats", "authority", "personal">>

TextMatch(urgency, threat, keywords) ==
    [urgency |-> urgency, threat |-> threat, keywords |-> keywords]

TextFound ==
    ("hello"        :> TextMatch({}, {}, {})) @@
    ("URGENT"       :> TextMatch({1}, {}, {<<"urgency", 2, "urgent">>})) @@
    ("pay the fine by bitcoin" :>
        TextMatch({}, {2}, {<<"payment", 4, "bitcoin">>, <<"threats", 5, "fine">>})) @@
    ("irs official" :>
        TextMatch({}, {}, {<<"arrest", 6, "cia">>, <<"authority", 2, "irs">>,
                           <<"authority", 7, "official">>})) @@
    ("do not delay" :> TextMatch({}, {}, {}))

\* _preprocess_text expands the contractions
text_preprocess_text(content) ==
    [i \in 1..Len(content) |->
        IF content[i] = "don't delay" THEN "do not delay" ELSE content[i]]

\* what is found in the whole content
text_found(content, what) == UNION {TextFound[content[i]][what] : i \in 1..Len(content)}

text_keywords(content, category) ==
    {k \in text_found(content, "keywords") : k[1] = category}

text_rule_based_analysis(content) ==
    LET urgency_score   == Frac(3, 10) * Cardinality(text_found(content, "urgency"))
        threat_score    == Frac(4, 10) * Cardinality(text_found(content, "threat"))
        authority_score == Frac(2, 10) * Cardinality(text_keywords(content, "authority"))
        payment_score   == Frac(3, 10) * Cardinality(text_keywords(content, "payment")) +
                           Frac(2, 10) * Cardinality(text_keywords(content, "otp"))
    IN  [urgency_score   |-> Min(urgency_score, ONE),
         threat_score    |-> Min(threat_score, ONE),
         authority_score |-> Min(authority_score, ONE),
         payment_score   |-> Min(payment_score, ONE),
         total_score     |->
            (urgency_score + threat_score + authority_score + payment_score) \div 4]

\* the keywords in the order of their list
RECURSIVE InListOrder(_)
InListOrder(keywords) ==
    IF keywords = {} THEN <<>>
    ELSE LET first == CHOOSE k \in keywords : \A other \in keywords : k[2] <= other[2]
         IN  <<first[3]>> \o InListOrder(keywords \ {first})

text_keyword_analysis(content) ==
    LET found_keywords ==
            [c \in Range(TextCategories) |-> InListOrder(text_keywords(content, c))]
        keyword_scores ==
            [c \in Range(TextCategories) |->
                Min(Frac(2, 10) * Len(found_keywords[c]), ONE)]
    IN  [found_keywords      |-> found_keywords,
         keyword_scores      |-> keyword_scores,
         total_keyword_score |->
            SumSeq([i \in 1..Len(TextCategories) |-> keyword_scores[TextCategories[i]]])
                \div Len(TextCategories)]

\* what _sender_reputation_analysis tests in a sender
TextSenderShape(suspicious_domain, legitimate_domain, patterns) ==
    [suspicious_domain |-> suspicious_domain, legitimate_domain |-> legitimate_domain,
     patterns |-> patterns]

TextSenders ==
    ("agent@irs.gov"              :> TextSenderShape(FALSE, TRUE, <<>>)) @@
    ("bob@gmail.com"              :> TextSenderShape(TRUE, FALSE, <<>>)) @@
    ("555-0123"                   :> TextSenderShape(FALSE, FALSE, <<"[^a-zA-Z0-9@.]">>)) @@
    ("lucky_1234567890@claim.top" :>
        TextSenderShape(FALSE, FALSE, <<"[0-9]{10,}", "[^a-zA-Z0-9@.]">>))

text_sender_reputation_analysis(sender_info) ==
    IF sender_info \in {None, ""}
    THEN [score |-> 0, reputation |-> "unknown", reasons |-> <<>>]
    ELSE
    LET s == TextSenders[sender_info]
        domain ==
            IF s.suspicious_domain THEN <<Frac(3, 10), <<"Suspicious domain">>>>
            ELSE IF s.legitimate_domain THEN <<Frac(-2, 10), <<"Legitimate domain">>>>
            ELSE <<0, <<>>>>
        score == domain[1] + Frac(2, 10) * Len(s.patterns)
    IN  [score      |-> Min(score, ONE),
         reputation |-> IF score > Frac(3, 10) THEN "suspicious"
                        ELSE IF score < Frac(-1, 10) THEN "legitimate"
                        ELSE "neutral",
         reasons    |-> domain[2] \o s.patterns]

text_weights == [zero_shot |-> 3, rule_based |-> 3, keyword |-> 2, sender |-> 2]

\* the result without a lower bound, as the code has it
text_clamp(risk_score) == Min(risk_score, ONE)

text_calculate_risk_score(zero_shot_result, rule_based_result, keyword_analysis, sender_analysis) ==
    LET zero_shot_score ==
            IF zero_shot_result.predicted_label \in {"scam", "phishing", "fraud"}
            THEN zero_shot_result.confidence
            ELSE IF zero_shot_result.predicted_label = "suspicious"
            THEN Times(zero_shot_result.confidence, 7, 10)
            ELSE 0
    IN  text_clamp(
            Times(zero_shot_score, text_weights.zero_shot, 10) +
            Times(rule_based_result.total_score, text_weights.rule_based, 10) +
            Times(keyword_analysis.total_keyword_score, text_weights.keyword, 10) +
            Times(sender_analysis.score, text_weights.sender, 10))

text_determine_risk_level(risk_score) ==
    IF risk_score >= Frac(8, 10) THEN <<"HIGH", TRUE>>
    ELSE IF risk_score >= Frac(5, 10) THEN <<"MEDIUM", FALSE>>
    ELSE <<"LOW", FALSE>>

text_generate_explanation(zero_shot_result, rule_based_result, keyword_analysis, sender_analysis) ==
    LET explanations ==
            (IF zero_shot_result.confidence > Frac(7, 10)
             THEN <<"AI classification">> ELSE <<>>) \o
            (IF rule_based_result.urgency_score > Frac(5, 10)
             THEN <<"High urgency language detected">> ELSE <<>>) \o
            (IF rule_based_result.threat_score > Frac(5, 10)
             THEN <<"Threatening language detected">> ELSE <<>>) \o
            (IF rule_based_result.authority_score > Frac(5, 10)
             THEN <<"Authority impersonation detected">> ELSE <<>>) \o
            (IF rule_based_result.payment_score > Frac(5, 10)
             THEN <<"Payment request detected">> ELSE <<>>) \o
            (IF \E c \in Range(TextCategories) :
                    keyword_analysis.keyword_scores[c] > Frac(5, 10)
             THEN <<"High-risk keywords found">> ELSE <<>>) \o
            (IF sender_analysis.reasons # <<>>
             THEN <<"Sender issues">> ELSE <<>>)
    IN  IF explanations # <<>> THEN explanations
        ELSE <<"No significant fraud indicators detected">>

text_extract_triggers(keyword_analysis, rule_based_result) ==
    UNION {Range(Take(keyword_analysis.found_keywords[c], 3)) :
              c \in {c \in Range(TextCategories) :
                        keyword_analysis.keyword_scores[c] > Frac(5, 10)}} \cup
    (IF rule_based_result.urgency_score > Frac(5, 10) THEN {"Urgency language"} ELSE {}) \cup
    (IF rule_based_result.threat_score > Frac(5, 10)
     THEN {"Threatening language"} ELSE {}) \cup
    (IF rule_based_result.authority_score > Frac(5, 10)
     THEN {"Authority impersonation"} ELSE {}) \cup
    (IF rule_based_result.payment_score > Frac(5, 10) THEN {"Payment request"} ELSE {})

\* TextAnalyzer.analyze, given what the zero-shot classification returned
text_result(content, channel, sender_info, zero_shot_result, now) ==
    LET processed_content == text_preprocess_text(content)
        rule_based_result == text_rule_based_analysis(processed_content)
        keyword_analysis  == text_keyword_analysis(processed_content)
        sender_analysis   == text_sender_reputation_analysis(sender_info)
        risk_score ==
            text_calculate_risk_score(zero_shot_result, rule_based_result,
                                      keyword_analysis, sender_analysis)
    IN  Result(channel, content, risk_score, text_determine_risk_level(risk_score),
               Classified(zero_shot_result, <<>>),
               text_extract_triggers(keyword_analysis, rule_based_result),
               text_generate_explanation(zero_shot_result, rule_based_result,
                                         keyword_analysis, sender_analysis),
               [zero_shot        |-> zero_shot_result,
                rule_based       |-> rule_based_result,
                keyword_analysis |-> keyword_analysis,
                sender_analysis  |-> sender_analysis],
               now)

(***************************************************************************)
(* GeminiExplanationService.  A response of the model is the text it       *)
(* returned: whether it holds a "{", whether what lies between the first   *)
(* "{" and the last "}" is JSON, the object that JSON is, and whether the  *)
(* text is longer than 500 characters.                                     *)
(***************************************************************************)
GeminiRaises == [raises |-> TRUE]

GeminiText(text, has_brace, is_json, object, long) ==
    [raises |-> FALSE, text |-> text, has_brace |-> has_brace, is_json |-> is_json,
     object |-> object, long |-> long]

\* result.get(key, default)
Get(object, key, default) == IF key \in DOMAIN object THEN object[key] ELSE default

\* a text is the sequence of its sentences
gemini_fallback_parse(response) ==
    [executive_summary     |-> <<"AI analysis completed successfully">>,
     detailed_explanation  |-> IF response.long THEN <<response.text, "[:500]", "...">>
                               ELSE <<response.text>>,
     technical_insights    |-> "Pattern analysis performed",
     immediate_actions     |-> <<"Review the analysis results", "Take appropriate action">>,
     prevention_tips       |-> <<"Be cautious with suspicious messages",
                                 "Verify sender information">>,
     confidence_assessment |-> "Analysis completed with available data",
     risk_breakdown        |-> [primary_concerns |-> <<"Analysis completed">>,
                                secondary_concerns |-> <<>>, mitigating_factors |-> <<>>],
     next_steps            |-> [immediate |-> "Review analysis results",
                                short_term |-> "Take recommended actions",
                                long_term |-> "Implement prevention measures"],
     raw_response          |-> response.text]

\* start_idx is -1 without a "{"; end_idx is never -1; json.loads raises on
\* what is not JSON, and the handler falls back
gemini_parse_explanation_response(response) ==
    IF response.has_brace /\ response.is_json
    THEN [executive_summary     |-> Get(response.object, "executive_summary",
                                        <<"Analysis completed">>),
          detailed_explanation  |-> Get(response.object, "detailed_explanation",
                                        "Technical analysis performed"),
          technical_insights    |-> Get(response.object, "technical_insights",
                                        "Patterns detected"),
          immediate_actions     |-> Get(response.object, "immediate_actions", <<>>),
          prevention_tips       |-> Get(response.object, "prevention_tips", <<>>),
          confidence_assessment |-> Get(response.object, "confidence_assessment",
                                        "Analysis completed"),
          risk_breakdown        |-> Get(response.object, "risk_breakdown", <<>>),
          next_steps            |-> Get(response.object, "next_steps", <<>>),
          raw_response          |-> response.text]
    ELSE gemini_fallback_parse(response)

\* the keys _enhance_analysis_result adds to the copy of the result, or
\* replaces in it
gemini_enhancement(gemini_explanation, now) ==
    [gemini_explanation |->
        [executive_summary     |-> gemini_explanation.executive_summary,
         detailed_explanation  |-> gemini_explanation.detailed_explanation,
         technical_insights    |-> gemini_explanation.technical_insights,
         immediate_actions     |-> gemini_explanation.immediate_actions,
         prevention_tips       |-> gemini_explanation.prevention_tips,
         confidence_assessment |-> gemini_explanation.confidence_assessment,
         risk_breakdown        |-> gemini_explanation.risk_breakdown,
         next_steps            |-> gemini_explanation.next_steps,
         generated_at          |-> now,
         model_used            |-> "gemini-2.0-flash-exp"],
     explanation    |-> gemini_explanation.executive_summary,
     next_steps     |-> gemini_explanation.next_steps,
     risk_breakdown |-> gemini_explanation.risk_breakdown]

gemini_enhance_analysis_result(original_result, gemini_explanation, now) ==
    IF gemini_explanation.immediate_actions # <<>>
    THEN [human_friendly_triggers |-> gemini_explanation.immediate_actions] @@
         gemini_enhancement(gemini_explanation, now) @@ original_result
    ELSE gemini_enhancement(gemini_explanation, now) @@ original_result

\* generate_explanation: the result as it is when the service was not
\* initialised or the call of the model raised
gemini_generate_explanation(analysis_result, response, initialized, now) ==
    IF ~initialized \/ response.raises THEN analysis_result
    ELSE gemini_enhance_analysis_result(analysis_result,
                                        gemini_parse_explanation_response(response), now)

(***************************************************************************)
(* The state: the models each analyzer holds, the e-mail cache, and the    *)
(* last call with what it did.  inp and out are the input and the output   *)
(* of the scoring functions applied on their own.                          *)
(***************************************************************************)
VARIABLES is_initialized, phishing_classifier, scam_classifier, analysis_cache,
          last, inp, out, tasks

vars ==
    <<is_initialized, phishing_classifier, scam_classifier, analysis_cache,
      last, inp, out, tasks>>

NoCall ==
    [op |-> "none", args |-> <<>>, loaded |-> None, outcome |-> "none",
     result |-> <<>>, calls |-> <<>>, cache_hit |-> FALSE, evicted |-> {}]

\* loaded: the optional model of the analyzer, as the call found it; evicted:
\* the cache keys the call removed
Call(op, args, loaded, did, evicted) ==
    [op |-> op, args |-> args, loaded |-> loaded, outcome |-> did.outcome,
     result |-> did.result, calls |-> did.calls, cache_hit |-> did.cache_hit,
     evicted |-> evicted]

\* EmailAnalyzer.initialize: the backup model may fail to load; the zero-shot
\* model has to load, or initialize raises and is_initialized stays as it is
InitializeEmail(loaded, zero_shot_loaded) ==
    /\ phishing_classifier' = IF loaded THEN "loaded" ELSE None
    /\ is_initialized' =
            IF zero_shot_loaded THEN [is_initialized EXCEPT !.email = TRUE]
            ELSE is_initialized
    /\ UNCHANGED <<scam_classifier, analysis_cache, last, inp, out, tasks>>

\* ChatAnalyzer.initialize: the primary model may fail to load; the zero-shot
\* model has to load, or initialize raises and is_initialized stays as it is
InitializeChat(loaded, zero_shot_loaded) ==
    /\ scam_classifier' = IF loaded THEN "loaded" ELSE None
    /\ is_initialized' =
            IF zero_shot_loaded THEN [is_initialized EXCEPT !.chat = TRUE]
            ELSE is_initialized
    /\ UNCHANGED <<phishing_classifier, analysis_cache, last, inp, out, tasks>>

\* the zero-shot classifier of an analyzer that was never initialized is
\* None, and calling it raises TypeError
EmailEnv(env) == IF is_initialized.email THEN env ELSE [env EXCEPT !.primary = Raises]

ChatEnv(env) ==
    IF is_initialized.chat THEN env
    ELSE [env EXCEPT !.secondary = Raises, !.sentiment = "none"]

AnalyzeSms(message, sender_number, env, now) ==
    /\ last' = Call("analyze_sms", <<message, sender_number>>, None,
                    analyze_sms(message, sender_number, env, now), {})
    /\ UNCHANGED <<is_initialized, phishing_classifier, scam_classifier,
                   analysis_cache, inp, out, tasks>>

AnalyzeEmail(subject, body, sender_email, env, now) ==
    \E did \in {analyze_email(subject, body, sender_email, EmailEnv(env),
                               phishing_classifier, now, analysis_cache)} :
        /\ last' = Call("analyze_email", <<subject, body, sender_email>>,
                        phishing_classifier, did.call, did.evicted)
        /\ analysis_cache' = did.cache
        /\ UNCHANGED <<is_initialized, phishing_classifier, scam_classifier, inp, out, tasks>>

AnalyzeChat(messages, sender_info, env, now) ==
    /\ last' = Call("analyze_chat", <<messages, sender_info>>, scam_classifier,
                    analyze_chat(messages, sender_info, ChatEnv(env), scam_classifier,
                                 now), {})
    /\ UNCHANGED <<is_initialized, phishing_classifier, scam_classifier,
                   analysis_cache, inp, out, tasks>>

\* GeminiExplanationService.initialize: configuring the model may raise, and
\* the service is then not initialised
InitializeExplanation(configured) ==
    /\ is_initialized' = [is_initialized EXCEPT !.explanation = configured]
    /\ UNCHANGED <<phishing_classifier, scam_classifier, analysis_cache, last, inp, out, tasks>>

\* generate_explanation on the result of the last call; loaded records
\* whether the service was initialised
GenerateExplanation(response, now) ==
    /\ last.outcome = "returned"
    /\ last' = Call("generate_explanation", <<response>>, is_initialized.explanation,
                    Returned(gemini_generate_explanation(last.result[1], response,
                                                         is_initialized.explanation, now),
                             <<>>, FALSE), {})
    /\ UNCHANGED <<is_initialized, phishing_classifier, scam_classifier,
                   analysis_cache, inp, out, tasks>>

NoInput == [channel |-> "none"]

Init ==
    /\ is_initialized = [sms |-> FALSE, email |-> FALSE, chat |-> FALSE, explanation |-> FALSE]
    /\ phishing_classifier = None
    /\ scam_classifier = None
    /\ analysis_cache = <<>>
    /\ last = NoCall
    /\ inp = NoInput
    /\ out = <<>>
    /\ tasks = <<>>

(***************************************************************************)
(* Spec: the three analyzers called in any order with any classifier       *)
(* behaviour, on a few inputs each.                                        *)
(***************************************************************************)
WarrantMessage ==
    <<"URGENT:", "You have an outstanding", "warrant.", "Call", "555-0123",
      "immediately", "or face", "arrest!">>

SmsEnvs ==
    [primary   : {Raises, Returns("LABEL_1", ONE), Returns("LABEL_0", Frac(9, 10))},
     secondary : {Raises, Returns("spam", Frac(6, 10))}]

EmailEnvs ==
    [primary   : {Raises, Returns("phishing", Frac(9, 10)),
                  Returns("legitimate", Frac(9, 10))},
     secondary : {Raises, Returns("NEGATIVE", Frac(7, 10))}]

ChatEnvs ==
    [primary   : {Raises, Returns("LABEL_1", Frac(9, 10)), Returns("LABEL_0", Frac(9, 10))},
     secondary : {Raises, Returns("scam", Frac(6, 10))},
     sentiment : {"LABEL_0"}]

Run(text, times) == [text |-> text, times |-> times]

SmsCalls ==
    {<<<<>>, "555-0123">>, <<<<>>, None>>, <<WarrantMessage, "555-0123">>,
     <<<<"hello">>, NotAString>>}

EmailCalls ==
    {<<<<>>, <<>>, "test@example.com">>, <<<<>>, <<>>, NotAString>>}

ChatCalls ==
    {<<<<>>, None>>, <<<<Run(<<"hello">>, 1)>>, None>>,
     <<<<Run(<<"URGENT", "bitcoin">>, 3)>>, "admin">>,
     <<<<Run(<<"hello">>, 1)>>, NotAString>>}

Next ==
    \/ \E loaded, zero_shot_loaded \in BOOLEAN : InitializeEmail(loaded, zero_shot_loaded)
    \/ \E loaded, zero_shot_loaded \in BOOLEAN : InitializeChat(loaded, zero_shot_loaded)
    \/ \E call \in SmsCalls, env \in SmsEnvs : AnalyzeSms(call[1], call[2], env, 1)
    \/ \E call \in EmailCalls, env \in EmailEnvs :
            AnalyzeEmail(call[1], call[2], call[3], env, 1)
    \/ \E call \in ChatCalls, env \in ChatEnvs :
            AnalyzeChat(Expand(call[1]), call[2], env, 1)

Spec == Init /\ [][Next]_vars
(***************************************************************************)
(* SpecScore: the scoring functions applied on their own, to every         *)
(* message of a small vocabulary, every sender shape and a grid of         *)
(* classifier confidences.                                                 *)
(***************************************************************************)
\* the most messages in a row of a conversation that differ
MaxRuns == 2

SmsVocabulary == {"hello", "please call me or", "arrest", "URGENT"}

EmailVocabulary ==
    {"thank you for banking with us", "verified", "URGENT", "http://pay.tk/login"}

ChatRuns ==
    {Run(text, times) :
        text \in {<<"hello">>, <<"URGENT", "bitcoin">>, <<"thank you for banking with us">>},
        times \in {1, 3, 11}}

SmsClassifications ==
    {Classification("spam", c, TRUE) : c \in ConfidenceGrid} \cup
    {Classification("ham", Frac(9, 10), FALSE)}

EmailClassifications ==
    {Classification("phishing", Frac(k, 10), TRUE) : k \in {0, 5, 8, 9, 10}} \cup
    {Classification("legitimate", Frac(k, 10), FALSE) : k \in {5, 6, 9}} \cup
    {Classification("business", Frac(7, 10), FALSE)} \cup
    {Unknown}

ChatClassifications ==
    {Classification("spam", Frac(k, 10), TRUE) : k \in {0, 3, 5, 7, 9, 10}} \cup
    {Classification("ham", Frac(9, 10), FALSE)}

\* the risk scores _determine_risk_level is applied to: the hundredths
ScoreGrid == {Frac(k, 100) : k \in 0..100}

Input(channel, content, sender, classification) ==
    [channel |-> channel, content |-> content, sender |-> sender,
     classification |-> classification, risk_score |-> 0, original |-> <<>>]

LevelInput(channel, risk_score) ==
    [channel |-> channel, content |-> <<>>, sender |-> None,
     classification |-> Unknown, risk_score |-> risk_score, original |-> <<>>]

SmsInputs ==
    {Input("sms", message, sender, classification) :
        message \in SeqsUpTo(SmsVocabulary, MaxTokens),
        sender \in {None, "555-0123", "1234567890", "11112345678"},
        classification \in SmsClassifications}

\* messages of more than 200 characters, with a classification that is not
\* positive
SmsLongInputs ==
    {Input("sms", message, sender, classification) :
        message \in {<<"A1!A1!A1!...">>, <<"URGENT", "A1!A1!A1!...">>,
                     <<"A1!A1!A1!...", "arrest", "A1!A1!A1!...">>},
        sender \in {None, "11112345678"},
        classification \in {Classification("ham", Frac(9, 10), FALSE), Unknown}}

EmailInputs ==
    {Input("email", body, sender, classification) :
        body \in SeqsUpTo(EmailVocabulary, MaxTokens),
        sender \in {None, "test@example.com", "support@microsoft.com",
                    "lucky_1234567890@claim.top"},
        classification \in EmailClassifications}

ChatInputs ==
    {Input("chat", runs, sender, classification) :
        runs \in SeqsUpTo(ChatRuns, MaxRuns) \ {<<>>},
        sender \in {None, "admin"},
        classification \in ChatClassifications}

TextVocabulary ==
    {"hello", "URGENT", "pay the fine by bitcoin", "irs official", "don't delay"}

\* what _zero_shot_classification returns: the first label and its score,
\* or "unknown" when the classifier raised
TextClassifications ==
    {[predicted_label |-> "scam", confidence |-> ONE],
     [predicted_label |-> "suspicious", confidence |-> Frac(5, 10)],
     [predicted_label |-> "legitimate", confidence |-> Frac(9, 10)],
     [predicted_label |-> "unknown", confidence |-> 0]}

TextInputs ==
    {Input("text", content, sender, classification) :
        content \in SeqsUpTo(TextVocabulary, MaxTokens),
        sender \in {None, "agent@irs.gov", "bob@gmail.com", "lucky_1234567890@claim.top"},
        classification \in TextClassifications}

\* the bodies _analyze_links is applied to
LinkVocabulary ==
    {"hello", "http://bit.ly/x", "http://pay.tk/login", "http://example.com/a",
     "http://bit.ly.tk/login"}

LinkInputs ==
    {Input("email-links", body, None, Unknown) :
        body \in SeqsUpTo(LinkVocabulary, MaxTokens)}

\* the component scores _calculate_risk_score of EmailAnalyzer is applied to:
\* the pattern, statistical, sender and link scores, in this order
PatternGrid == {Frac(k, 100) : k \in {-1, 0, 10, 28, 30, 31, 40, 45, 100}}

FusionInputs ==
    {Input("email-fusion", <<pattern_score, statistical_score, sender_score, link_score>>,
           None, classification) :
        pattern_score \in PatternGrid,
        statistical_score \in {0, Frac(1, 7), Frac(3, 7)},
        sender_score \in {Frac(-2, 10), 0, Frac(9, 10)},
        link_score \in {0, Frac(8, 10)},
        classification \in EmailClassifications}

\* the scores the leaf scorers of the SMS analyzer can give: the mean of six
\* category scores, the fifths of five risk factors of which very_short and
\* very_long exclude each other, and the sender score capped at 1.0
SmsFusionInputs ==
    {Input("sms-fusion", <<pattern_score, statistical_score, sender_score>>,
           None, classification) :
        pattern_score \in {Frac(k, 30) : k \in {0, 1, 15, 29, 30}},
        statistical_score \in {Frac(k, 5) : k \in 0..4},
        sender_score \in {Frac(k, 10) : k \in {0, 1, 4, 7, 10}},
        classification \in SmsClassifications \cup {Unknown}}

LevelInputs ==
    {LevelInput(channel, risk_score) :
        channel \in {"sms-level", "email-level", "chat-level"},
        risk_score \in ScoreGrid}

InitScore ==
    /\ is_initialized = [sms |-> FALSE, email |-> FALSE, chat |-> FALSE, explanation |-> FALSE]
    /\ phishing_classifier = None
    /\ scam_classifier = None
    /\ analysis_cache = <<>>
    /\ last = NoCall
    /\ \/ inp \in SmsInputs
       \/ inp \in EmailInputs
       \/ inp \in ChatInputs
       \/ inp \in TextInputs
       \/ inp \in LevelInputs
       \/ inp \in LinkInputs
       \/ inp \in FusionInputs
       \/ inp \in SmsLongInputs
       \/ inp \in SmsFusionInputs
    /\ out = <<>>
    /\ tasks = <<>>

ScoreSms ==
    /\ inp.channel = "sms" /\ out = <<>>
    /\ out' = <<sms_result(inp.content, inp.sender,
                           Classified(inp.classification, <<>>), 0)>>
    /\ UNCHANGED <<is_initialized, phishing_classifier, scam_classifier,
                   analysis_cache, last, inp, tasks>>

ScoreEmail ==
    /\ inp.channel = "email" /\ out = <<>>
    /\ out' = <<email_result(<<>>, inp.content, inp.sender,
                             Classified(inp.classification, <<>>), 0)>>
    /\ UNCHANGED <<is_initialized, phishing_classifier, scam_classifier,
                   analysis_cache, last, inp, tasks>>

ScoreChat ==
    /\ inp.channel = "chat" /\ out = <<>>
    /\ out' = <<chat_result(Expand(inp.content), inp.sender,
                            Classified(inp.classification, <<>>), "none", 0)>>
    /\ UNCHANGED <<is_initialized, phishing_classifier, scam_classifier,
                   analysis_cache, last, inp, tasks>>

\* analyze on the channel "email", as /analyze/text and /analyze/multi-channel
\* call it
ScoreText ==
    /\ inp.channel = "text" /\ out = <<>>
    /\ out' = <<text_result(inp.content, "email", inp.sender, inp.classification, 0)>>
    /\ UNCHANGED <<is_initialized, phishing_classifier, scam_classifier,
                   analysis_cache, last, inp, tasks>>

\* _calculate_risk_score of EmailAnalyzer on component scores
FusedEmailScore(classification, scores) ==
    email_calculate_risk_score(classification,
                               [total_pattern_score |-> scores[1]],
                               [statistical_score |-> scores[2]],
                               [score |-> scores[3]], [score |-> scores[4]])

FuseEmail ==
    /\ inp.channel = "email-fusion" /\ out = <<>>
    /\ out' = <<FusedEmailScore(inp.classification, inp.content)>>
    /\ UNCHANGED <<is_initialized, phishing_classifier, scam_classifier,
                   analysis_cache, last, inp, tasks>>

\* _calculate_risk_score and _determine_risk_level of the SMS analyzer on
\* given scores of the leaf scorers
FusedSmsScore(classification, scores) ==
    LET risk_score ==
            sms_calculate_risk_score(classification,
                                     [total_pattern_score |-> scores[1]],
                                     [statistical_score |-> scores[2]],
                                     [score |-> scores[3]])
        level == sms_determine_risk_level(risk_score)
    IN  [risk_score |-> risk_score, risk_level |-> level[1], flagged |-> level[2]]

FuseSms ==
    /\ inp.channel = "sms-fusion" /\ out = <<>>
    /\ out' = <<FusedSmsScore(inp.classification, inp.content)>>
    /\ UNCHANGED <<is_initialized, phishing_classifier, scam_classifier,
                   analysis_cache, last, inp, tasks>>

AnalyzeLinks ==
    /\ inp.channel = "email-links" /\ out = <<>>
    /\ out' = <<email_analyze_links(inp.content)>>
    /\ UNCHANGED <<is_initialized, phishing_classifier, scam_classifier,
                   analysis_cache, last, inp, tasks>>

DetermineRiskLevel ==
    /\ inp.channel \in {"sms-level", "email-level", "chat-level"} /\ out = <<>>
    /\ out' = <<CASE inp.channel = "sms-level" -> sms_determine_risk_level(inp.risk_score)
                  [] inp.channel = "email-level" -> email_determine_risk_level(inp.risk_score)
                  [] inp.channel = "chat-level" -> chat_determine_risk_level(inp.risk_score)>>
    /\ UNCHANGED <<is_initialized, phishing_classifier, scam_classifier,
                   analysis_cache, last, inp, tasks>>

\* the tokens of a message without the i-th
Without(message, i) == SubSeq(message, 1, i - 1) \o SubSeq(message, i + 1, Len(message))

\* the phrase at position i of a scored message is taken out, and the message
\* is to be scored again; original keeps the message and its result
RemovePhrase(i) ==
    /\ inp.channel = "sms" /\ out # <<>> /\ inp.original = <<>>
    /\ i \in 1..Len(inp.content)
    /\ sms_analyze_patterns(<<inp.content[i]>>).total_pattern_score > 0
    /\ inp' = [inp EXCEPT !.content = Without(inp.content, i),
                          !.original = <<[message |-> inp.content, phrase |-> i,
                                          result |-> out[1]]>>]
    /\ out' = <<>>
    /\ UNCHANGED <<is_initialized, phishing_classifier, scam_classifier,
                   analysis_cache, last, tasks>>

NextScore ==
    \/ ScoreSms
    \/ ScoreEmail
    \/ ScoreChat
    \/ ScoreText
    \/ DetermineRiskLevel
    \/ AnalyzeLinks
    \/ FuseEmail
    \/ FuseSms
    \/ \E i \in 1..MaxTokens : RemovePhrase(i)

SpecScore == InitScore /\ [][NextScore]_vars
(***************************************************************************)
(* SpecCache: the analyzers called again and again with a deterministic    *)
(* classifier, the e-mails sharing a cache smaller than their number.      *)
(***************************************************************************)
\* the times a call can be made at (analysis_id is made from the time)
Clock == {1, 2}

\* a deterministic classifier: positive on the texts that hold "URGENT"
MockEnv(content, positive, negative) ==
    [primary   |-> IF "URGENT" \in Range(content)
                   THEN Returns(positive, Frac(9, 10))
                   ELSE Returns(negative, Frac(9, 10)),
     secondary |-> Raises,
     sentiment |-> "none"]

CacheEmails ==
    {<<subject, body, None>> : subject \in {<<>>, <<"hello">>},
                               body \in {<<>>, <<"hello">>}} \cup
    {<<<<>>, <<"URGENT">>, None>>}

NextCache ==
    \/ \E call \in CacheEmails, now \in Clock :
            AnalyzeEmail(call[1], call[2], call[3],
                         MockEnv(call[2], "phishing", "legitimate"), now)
    \/ \E message \in {<<"hello">>, <<"URGENT", "arrest">>}, now \in Clock :
            AnalyzeSms(message, None, MockEnv(message, "LABEL_1", "LABEL_0"), now)
    \/ \E runs \in {<<Run(<<"hello">>, 1)>>, <<Run(<<"URGENT", "bitcoin">>, 3)>>},
          now \in Clock :
            AnalyzeChat(Expand(runs), None,
                        MockEnv(Flatten(Expand(runs)), "LABEL_1", "LABEL_0"), now)

\* the state after construction and a successful initialize() of each analyzer
InitReady ==
    /\ is_initialized = [sms |-> TRUE, email |-> TRUE, chat |-> TRUE, explanation |-> FALSE]
    /\ phishing_classifier = "loaded"
    /\ scam_classifier = "loaded"
    /\ analysis_cache = <<>>
    /\ last = NoCall
    /\ inp = NoInput
    /\ out = <<>>
    /\ tasks = <<>>

SpecCache == InitReady /\ [][NextCache]_vars
(***************************************************************************)
(* SpecExplain: SMS analyses handed to the explanation service, whose      *)
(* model answers in every way a text can be read by the parser.            *)
(***************************************************************************)
GeminiObject ==
    [executive_summary |-> <<"This message is a scam">>,
     detailed_explanation |-> <<"It threatens arrest">>,
     technical_insights |-> <<"Urgency and threat keywords">>,
     immediate_actions |-> <<"Do not reply">>,
     prevention_tips |-> <<"Block the sender">>,
     confidence_assessment |-> <<"High">>,
     risk_breakdown |-> [primary_concerns |-> <<"threat">>],
     next_steps |-> [immediate |-> "Delete the message"]]

GeminiResponses ==
    {GeminiRaises,
     GeminiText("I cannot help with that", FALSE, FALSE, <<>>, FALSE),
     GeminiText("Here is a long answer without JSON", FALSE, FALSE, <<>>, TRUE),
     GeminiText("{executive_summary: cut off", TRUE, FALSE, <<>>, FALSE),
     GeminiText("{}", TRUE, TRUE, <<>>, FALSE),
     GeminiText("json {...}", TRUE, TRUE, GeminiObject, FALSE)}

NextExplain ==
    \/ \E configured \in BOOLEAN : InitializeExplanation(configured)
    \/ \E message \in {<<"hello">>, <<"URGENT", "arrest">>, WarrantMessage} :
            AnalyzeSms(message, None, MockEnv(message, "LABEL_1", "LABEL_0"), 1)
    \/ \E response \in GeminiResponses : GenerateExplanation(response, 2)

SpecExplain == InitReady /\ [][NextExplain]_vars
(***************************************************************************)
(* SpecConcurrent: analyze_email called by several requests at once on the *)
(* one EmailAnalyzer of the service.  The requests are coroutines of one   *)
(* event loop: a call runs alone up to an await and from an await on, so   *)
(* it has two steps, the cache lookup before the first await (line 164)    *)
(* and the rest after the awaited analyses (lines 164-168), which touch    *)
(* nothing shared.  tasks holds the calls that are suspended between.      *)
(***************************************************************************)
\* the most calls in flight
MaxTasks == 2

IdleTask == [pc |-> "idle", args |-> <<>>, started |-> 0]

ConcurrentEmails ==
    {<<<<>>, <<"hello">>, None>>, <<<<>>, <<"URGENT">>, None>>,
     <<<<"hello">>, <<"hello">>, None>>, <<<<>>, <<>>, "test@example.com">>}

\* lines 141-158: the key is made and looked up; a hit returns the copy of
\* the cached result, a miss goes on to the analyses and is suspended there
BeginEmail(t, subject, body, sender_email, now) ==
    /\ tasks[t].pc = "idle"
    /\ \E key \in {cache_key(subject, body, sender_email)} :
        IF key \in CacheKeys(analysis_cache)
        THEN /\ last' = Call("analyze_email", <<subject, body, sender_email>>,
                             phishing_classifier,
                             Returned(CachedCopy(CacheGet(analysis_cache, key), now),
                                      <<>>, TRUE), {})
             /\ UNCHANGED tasks
        ELSE /\ tasks' = [tasks EXCEPT ![t] =
                            [pc |-> "awaiting", args |-> <<subject, body, sender_email>>,
                             started |-> now]]
             /\ UNCHANGED last
    /\ UNCHANGED <<is_initialized, phishing_classifier, scam_classifier,
                   analysis_cache, inp, out>>

\* lines 164-223: the analyses are back, the result is built, the oldest
\* entry is taken out of a full cache and the result is stored and returned
FinishEmail(t, env) ==
    /\ tasks[t].pc = "awaiting"
    /\ \E classified \in {email_classify_phishing(env, phishing_classifier)} :
       \E did \in {CacheMiss(analysis_cache,
                             cache_key(tasks[t].args[1], tasks[t].args[2],
                                       tasks[t].args[3]),
                             email_result(tasks[t].args[1], tasks[t].args[2],
                                          tasks[t].args[3], classified,
                                          tasks[t].started),
                             classified.calls)} :
            /\ last' = Call("analyze_email", tasks[t].args, phishing_classifier,
                            did.call, did.evicted)
            /\ analysis_cache' = did.cache
    /\ tasks' = [tasks EXCEPT ![t] = IdleTask]
    /\ UNCHANGED <<is_initialized, phishing_classifier, scam_classifier, inp, out>>

InitConcurrent ==
    /\ is_initialized = [sms |-> TRUE, email |-> TRUE, chat |-> TRUE, explanation |-> FALSE]
    /\ phishing_classifier = "loaded"
    /\ scam_classifier = "loaded"
    /\ analysis_cache = <<>>
    /\ last = NoCall
    /\ inp = NoInput
    /\ out = <<>>
    /\ tasks = [t \in 1..MaxTasks |-> IdleTask]

NextConcurrent ==
    \/ \E t \in 1..MaxTasks, call \in ConcurrentEmails :
            BeginEmail(t, call[1], call[2], call[3], 1)
    \/ \E t \in 1..MaxTasks :
            FinishEmail(t, MockEnv(tasks[t].args[2], "phishing", "legitimate"))

SpecConcurrent == InitConcurrent /\ [][NextConcurrent]_vars
(***************************************************************************)
(* Properties of the scoring functions (SpecScore).                        *)
(***************************************************************************)
Scored(channel) == inp.channel = channel /\ out # <<>>

\* C1: in each of the three analyzers the fused risk score lies in [0, 1],
\* for every classifier confidence and every result of the leaf scorers.
RiskScoreInUnitInterval ==
    \A channel \in {"sms", "email", "chat"} :
        Scored(channel) => 0 <= out[1].risk_score /\ out[1].risk_score <= ONE

\* C1 happens: an e-mail whose sender lowers the score is scored 0
RiskScoreFloorReached ==
    /\ Scored("email")
    /\ out[1].detailed_analysis.sender_analysis.score < 0
    /\ out[1].detailed_analysis.pattern_analysis.total_pattern_score < 0
    /\ out[1].risk_score = 0

Rank(level) == CASE level = "LOW" -> 0 [] level = "MEDIUM" -> 1 [] level = "HIGH" -> 2

\* the level _determine_risk_level of a channel gives a score
LevelOf(channel, risk_score) ==
    CASE channel = "sms-level"   -> sms_determine_risk_level(risk_score)
      [] channel = "email-level" -> email_determine_risk_level(risk_score)
      [] channel = "chat-level"  -> chat_determine_risk_level(risk_score)

Phrases(message) ==
    {j \in 1..Len(message) :
        sms_analyze_patterns(<<message[j]>>).total_pattern_score > 0}

\* C9: with the classifier result and the sender fixed, an SMS with exactly
\* one phrase matching a pattern category scores strictly higher than the
\* same message with the phrase removed, also when the removal changes the
\* statistical flags of the message.
PhraseRaisesRiskScore ==
    (/\ Scored("sms")
     /\ inp.original # <<>>
     /\ Cardinality(Phrases(inp.original[1].message)) = 1)
        => inp.original[1].result.risk_score > out[1].risk_score

\* the content without the tokens a pattern of the category matches
WithoutCategory(content, cat) ==
    SelectSeq(content,
        LAMBDA t : \A i \in 1..Len(email_phishing_patterns[cat]) :
                        Stem[t] \notin email_phishing_patterns[cat][i])

OnlyMatched(pattern_analysis, cat) ==
    \A c \in Range(EmailCategories) :
        (pattern_analysis.found_patterns[c] # <<>>) <=> (c = cat)

\* C10: when fake_legitimacy, the category of negative weight, is the only
\* category of an e-mail with matches, the pattern aggregate is at most the
\* aggregate of the e-mail without those matches, however many they are.
NegativeCategoryLowersAggregate ==
    Scored("email") /\ OnlyMatched(out[1].detailed_analysis.pattern_analysis,
                                   "fake_legitimacy")
        => out[1].detailed_analysis.pattern_analysis.total_pattern_score <=
           email_analyze_patterns(
               WithoutCategory(email_preprocess(<<>>, inp.content), "fake_legitimacy")
           ).total_pattern_score

\* C10 happens: an e-mail with several matches of fake_legitimacy and no
\* other match has a negative aggregate
NegativeAggregateReached ==
    /\ Scored("email")
    /\ OnlyMatched(out[1].detailed_analysis.pattern_analysis, "fake_legitimacy")
    /\ Len(out[1].detailed_analysis.pattern_analysis.found_patterns["fake_legitimacy"]) > 1
    /\ out[1].detailed_analysis.pattern_analysis.total_pattern_score < 0

(***************************************************************************)
(* Properties of the analyzers (Spec).                                     *)
(***************************************************************************)
Returned_(op) == last.op = op /\ last.outcome = "returned"

\* C3: analyze_sms of the empty message and analyze_email of the empty
\* subject and body return the risk score 0.0 and are not flagged, when the
\* sender adds no risk, whatever the classifier answers.
EmptyContentScoresZero ==
    /\ (/\ Returned_("analyze_sms")
        /\ last.args[1] = <<>>
        /\ last.result[1].detailed_analysis.sender_analysis.score = 0)
            => last.result[1].risk_score = 0 /\ ~last.result[1].flagged
    /\ (/\ Returned_("analyze_email")
        /\ last.args[1] = <<>> /\ last.args[2] = <<>>
        /\ last.result[1].detailed_analysis.sender_analysis.score = 0)
            => last.result[1].risk_score = 0 /\ ~last.result[1].flagged

\* no classifier answered and no leaf scorer found anything
NothingScored(result) ==
    /\ result.classification = Unknown
    /\ result.detailed_analysis.pattern_analysis.total_pattern_score = 0
    /\ result.detailed_analysis.sender_analysis.score = 0
    /\ result.channel = "sms" =>
            result.detailed_analysis.statistical_analysis.statistical_score = 0
    /\ result.channel = "email" =>
            /\ result.detailed_analysis.statistical_analysis.statistical_score = 0
            /\ result.detailed_analysis.link_analysis.score = 0
    /\ result.channel = "chat" =>
            result.detailed_analysis.conversation_analysis.score = 0

\* C4: every call of analyze_sms, analyze_email and analyze_chat returns a
\* result and raises nothing, the empty list of chat messages and a raising
\* leaf scorer included; with nothing scored the result is LOW with score 0.
AnalyzersAlwaysReturn ==
    last.op # "none" =>
        /\ last.outcome = "returned"
        /\ NothingScored(last.result[1]) =>
                last.result[1].risk_score = 0 /\ last.result[1].risk_level = "LOW"

\* the secondary classifier is called only after a call of the primary one
\* that raised; unless_unloaded allows it as the first call of ChatAnalyzer
\* when scam_classifier is None
SecondaryAfterPrimaryRaised(unless_unloaded) ==
    \A i \in 1..Len(last.calls) :
        last.calls[i].classifier = "secondary" =>
            \/ i > 1 /\ last.calls[i - 1].classifier = "primary" /\ last.calls[i - 1].raised
            \/ /\ unless_unloaded
               /\ i = 1 /\ last.op = "analyze_chat" /\ last.loaded = None

\* when every classifier called has raised, the classification is the
\* "unknown" one
UnknownWhenAllRaised ==
    (/\ last.outcome = "returned"
     /\ last.calls # <<>>
     /\ \A i \in 1..Len(last.calls) : last.calls[i].raised)
        => last.result[1].classification = Unknown

Answering ==
    [primary |-> Returns("LABEL_0", Frac(9, 10)),
     secondary |-> Returns("legitimate", Frac(9, 10)), sentiment |-> "none"]

\* what the last call does with classifiers that answer
OutcomeWhenAnswering ==
    CASE last.op = "analyze_sms" ->
            analyze_sms(last.args[1], last.args[2], Answering, 1).outcome
      [] last.op = "analyze_email" ->
            analyze_email(last.args[1], last.args[2], last.args[3], Answering,
                          last.loaded, 1, <<>>).call.outcome
      [] last.op = "analyze_chat" ->
            analyze_chat(last.args[1], last.args[2], Answering, last.loaded, 1).outcome

\* a classifier that raises does not make the call raise
ClassifierFailureContained ==
    (\E i \in 1..Len(last.calls) : last.calls[i].raised)
        => last.outcome = OutcomeWhenAnswering

\* C5 as stated: the secondary classifier is called only after the primary
\* classifier has raised; when the secondary raises too the classification is
\* "unknown" with confidence 0.0, not positive; no exception leaves the
\* classify step.
FallbackOnlyAfterPrimaryRaised ==
    last.op # "none" =>
        /\ SecondaryAfterPrimaryRaised(FALSE)
        /\ UnknownWhenAllRaised
        /\ ClassifierFailureContained

\* C5: the secondary classifier is called only after the primary classifier
\* has raised or, in ChatAnalyzer, first when the primary model is not
\* loaded; when every classifier called raises the classification is
\* "unknown" with confidence 0.0, not positive; no exception leaves the
\* classify step.
FallbackAfterPrimaryRaisedOrUnloaded ==
    last.op # "none" =>
        /\ SecondaryAfterPrimaryRaised(TRUE)
        /\ UnknownWhenAllRaised
        /\ ClassifierFailureContained

\* C5 happens: both classifiers of EmailAnalyzer raised and the call returned
\* the "unknown" classification
BothClassifiersRaised ==
    /\ Returned_("analyze_email")
    /\ Len(last.calls) = 2
    /\ last.calls[1].raised /\ last.calls[2].raised
    /\ last.result[1].classification = Unknown

\* C8: the warrant message from the sender "555-0123", labelled spam by the
\* classifier, is flagged as a scam with level MEDIUM or HIGH, a risk score
\* above 0.5 and a trigger among its urgency, authority and threat phrases.
WarrantScenarioFlagged ==
    (/\ Returned_("analyze_sms")
     /\ last.args = <<WarrantMessage, "555-0123">>
     /\ last.result[1].classification.predicted_label = "spam")
        => /\ last.result[1].flagged
           /\ last.result[1].risk_level \in {"MEDIUM", "HIGH"}
           /\ last.result[1].risk_score > Frac(5, 10)
           /\ last.result[1].triggers \cap {"URGENT", "immediately", "warrant", "arrest"} # {}

(***************************************************************************)
(* Properties of repeated calls and of the cache (SpecCache).              *)
(***************************************************************************)
\* two results that differ at most in analysis_id (processing_time and
\* timestamp come from the same clock)
SameAnalysis(a, b) == [a EXCEPT !.analysis_id = 0] = [b EXCEPT !.analysis_id = 0]

OldestKeys(cache) ==
    {cache[i].key : i \in {j \in 1..Len(cache) :
                            \A k \in 1..Len(cache) : cache[j].age >= cache[k].age}}

LegitimateBusinessEmail ==
    /\ inp.classification.predicted_label \in {"legitimate", "business"}
    /\ inp.classification.confidence > Frac(6, 10)
    /\ out[1].detailed_analysis.pattern_analysis.total_pattern_score < Frac(3, 10)
    /\ out[1].detailed_analysis.link_analysis.score < Frac(3, 10)

\* the score of the analyses of the scored e-mail under another label
ScoreUnderLabel(label) ==
    email_calculate_risk_score([inp.classification EXCEPT !.predicted_label = label],
                               out[1].detailed_analysis.pattern_analysis,
                               out[1].detailed_analysis.statistical_analysis,
                               out[1].detailed_analysis.sender_analysis,
                               out[1].detailed_analysis.link_analysis)

HalvedWhen(halved, risk_score) == IF halved THEN risk_score \div 2 ELSE risk_score

GeneratorFailed(call) ==
    /\ call.op = "generate_explanation"
    /\ \/ ~call.loaded
       \/ call.args[1].raises
       \/ ~call.args[1].has_brace
       \/ ~call.args[1].is_json

SameVerdict(a, b) ==
    /\ a.explanation = b.explanation
    /\ a.risk_score = b.risk_score
    /\ a.risk_level = b.risk_level
    /\ a.triggers = b.triggers

\* C12: a failed generator leaves the explanation, risk_score, risk_level and
\* triggers of the result as they were
FailedGeneratorKeepsResult ==
    [][GeneratorFailed(last') /\ last' # last
          => SameVerdict(last.result[1], last'.result[1])]_vars

(***************************************************************************)
(* C13, C14: the levels the tests of _determine_risk_level expect.         *)
(***************************************************************************)
\* C13: SMSAnalyzer._determine_risk_level gives HIGH and flagged from 0.7,
\* MEDIUM and not flagged from 0.4 to 0.6, LOW and not flagged up to 0.3
SmsRiskLevelAsTested ==
    Scored("sms-level") =>
        /\ inp.risk_score >= Frac(7, 10) => out[1] = <<"HIGH", TRUE>>
        /\ inp.risk_score >= Frac(4, 10) /\ inp.risk_score <= Frac(6, 10)
                => out[1] = <<"MEDIUM", FALSE>>
        /\ inp.risk_score <= Frac(3, 10) => out[1] = <<"LOW", FALSE>>

\* C14: EmailAnalyzer._determine_risk_level gives HIGH and flagged from 0.7,
\* MEDIUM and flagged from 0.3 to 0.5, LOW and not flagged up to 0.2
EmailRiskLevelAsTested ==
    Scored("email-level") =>
        /\ inp.risk_score >= Frac(7, 10) => out[1] = <<"HIGH", TRUE>>
        /\ inp.risk_score >= Frac(3, 10) /\ inp.risk_score <= Frac(5, 10)
                => out[1] = <<"MEDIUM", TRUE>>
        /\ inp.risk_score <= Frac(2, 10) => out[1] = <<"LOW", FALSE>>

(***************************************************************************)
(* The reputation of a sender.                                             *)
(***************************************************************************)
\* C15: an SMS sender of exactly 10 digits without a run of 4 identical
\* digits is "legitimate", with or without an ascending run; a sender with a
\* run of 4 identical digits, or of 11 digits with an ascending run, is
\* "suspicious"
SmsSenderReputationAsTested ==
    Scored("sms") /\ inp.sender \in DOMAIN SmsSenders =>
        LET shape      == SmsSenders[inp.sender]
            reputation == out[1].detailed_analysis.sender_analysis.reputation
        IN  /\ shape.all_digits /\ shape.length = 10 /\ ~shape.repeated4
                    => reputation = "legitimate"
            /\ \/ shape.repeated4
               \/ shape.all_digits /\ shape.length = 11 /\ shape.sequential
                    => reputation = "suspicious"

\* C16: an e-mail sender whose domain is on neither the suspicious-TLD list
\* nor the free-provider list, without a run of 10 digits and without a
\* special character, is "legitimate"; a sender of an allow-listed domain is
\* "legitimate"; a sender with a suspicious TLD is "suspicious"
EmailSenderReputationAsTested ==
    Scored("email") /\ inp.sender \in DOMAIN EmailSenders =>
        LET shape      == EmailSenders[inp.sender]
            reputation == out[1].detailed_analysis.sender_analysis.reputation
        IN  /\ /\ ~shape.suspicious_tld /\ ~shape.free_provider
               /\ ~shape.long_digits /\ ~shape.special_chars
                    => reputation = "legitimate"
            /\ shape.legitimate_domain => reputation = "legitimate"
            /\ shape.suspicious_tld => reputation = "suspicious"

(***************************************************************************)
(* TextAnalyzer and the bound of the response schema.                      *)
(***************************************************************************)
\* C17: TextAnalyzer.analyze returns a risk_score in [0, 1] for every content
\* and every sender, a sender of the legitimate-domain list with no other
\* signal included
TextRiskScoreInUnitInterval ==
    Scored("text") => 0 <= out[1].risk_score /\ out[1].risk_score <= ONE

(***************************************************************************)
(* The scores the leaf components hand to the fusion step.                 *)
(***************************************************************************)
InUnitInterval(score) == 0 <= score /\ score <= ONE

PatternScoresInUnitInterval(pattern_analysis) ==
    /\ \A cat \in DOMAIN pattern_analysis.pattern_scores :
            InUnitInterval(pattern_analysis.pattern_scores[cat])
    /\ InUnitInterval(pattern_analysis.total_pattern_score)

SmsLeafScoresInUnitInterval ==
    Scored("sms") =>
        /\ PatternScoresInUnitInterval(out[1].detailed_analysis.pattern_analysis)
        /\ InUnitInterval(out[1].detailed_analysis.statistical_analysis.statistical_score)
        /\ InUnitInterval(out[1].detailed_analysis.sender_analysis.score)

EmailLeafScoresInUnitInterval ==
    Scored("email") =>
        /\ PatternScoresInUnitInterval(out[1].detailed_analysis.pattern_analysis)
        /\ InUnitInterval(out[1].detailed_analysis.statistical_analysis.statistical_score)
        /\ InUnitInterval(out[1].detailed_analysis.sender_analysis.score)
        /\ InUnitInterval(out[1].detailed_analysis.link_analysis.score)

ChatLeafScoresInUnitInterval ==
    Scored("chat") =>
        /\ PatternScoresInUnitInterval(out[1].detailed_analysis.pattern_analysis)
        /\ InUnitInterval(out[1].detailed_analysis.conversation_analysis.score)
        /\ InUnitInterval(out[1].detailed_analysis.sender_analysis.score)
        /\ InUnitInterval(out[1].detailed_analysis.sentiment_analysis.score)

\* C18: in every channel each score a leaf component hands to the fusion step
\* (the pattern score of each category, the total pattern score, the
\* statistical, sender, link and conversation scores) lies in [0, 1]
LeafScoresInUnitInterval ==
    /\ SmsLeafScoresInUnitInterval
    /\ EmailLeafScoresInUnitInterval
    /\ ChatLeafScoresInUnitInterval

(***************************************************************************)
(* The contribution of the classification to the weighted sum.             *)
(***************************************************************************)
\* the contribution the fusion of the scored channel computes
ClassificationContribution ==
    CASE inp.channel = "sms"   -> sms_spam_score(inp.classification)
      [] inp.channel = "email" -> email_phishing_score(inp.classification)
      [] inp.channel = "chat"  -> chat_scam_score(inp.classification)

ConfidenceIfPositive ==
    IF inp.classification.is_positive THEN inp.classification.confidence ELSE 0

\* C19: in every channel the classification contribution is the confidence
\* of the classifier when it marked the content positive and 0.0 otherwise,
\* with no other transformation
ContributionIsConfidence ==
    \A channel \in {"sms", "email", "chat"} :
        Scored(channel) => ClassificationContribution = ConfidenceIfPositive

\* C19 as amended: so it is for SMS and chat, and for an e-mail whose
\* classifier is at most 0.8 confident; above 0.8 the e-mail contribution is
\* 1.1 times the confidence, and at most 1.0
ContributionBoostedInEmail ==
    /\ Scored("sms") \/ Scored("chat") => ClassificationContribution = ConfidenceIfPositive
    /\ Scored("email") =>
        ClassificationContribution =
            IF ConfidenceIfPositive > Frac(8, 10)
            THEN Min(Times(ConfidenceIfPositive, 11, 10), ONE)
            ELSE ConfidenceIfPositive

\* an e-mail classified phishing with confidence 0.9 contributes 0.99
EmailContributionBoosted ==
    /\ Scored("email")
    /\ inp.classification.is_positive
    /\ inp.classification.confidence = Frac(9, 10)
    /\ ClassificationContribution = Frac(99, 100)

(***************************************************************************)
(* The weights of the e-mail fusion.                                       *)
(***************************************************************************)
\* the sum of the five weights, in hundredths
WeightSum(weights) ==
    weights.phishing_classification + weights.pattern_analysis +
    weights.statistical_analysis + weights.sender_analysis + weights.link_analysis

\* C20: for every combination of pattern, link and sender scores the five
\* weights of the e-mail weighted sum add up to 1.0, the base weights and the
\* weights after the dynamic reweighting alike
EmailWeightsSumToOne ==
    /\ Scored("email") => WeightSum(email_base_weights) = 100
    /\ Scored("email") =>
        WeightSum(email_weights(
            out[1].detailed_analysis.pattern_analysis.total_pattern_score,
            out[1].detailed_analysis.link_analysis.score,
            out[1].detailed_analysis.sender_analysis.score)) = 100

(***************************************************************************)
(* The dynamic reweighting of the e-mail fusion.                           *)
(***************************************************************************)
\* the weights _calculate_risk_score uses for the scored e-mail
ScoredEmailWeights ==
    email_weights(out[1].detailed_analysis.pattern_analysis.total_pattern_score,
                  out[1].detailed_analysis.link_analysis.score,
                  out[1].detailed_analysis.sender_analysis.score)

\* how many of the three elevation conditions hold for the scored e-mail
ElevatedComponents ==
    CountTrue(<<out[1].detailed_analysis.pattern_analysis.total_pattern_score > Frac(3, 10),
                out[1].detailed_analysis.link_analysis.score > Frac(5, 10),
                out[1].detailed_analysis.sender_analysis.score > Frac(5, 10)>>)

\* the components whose weight is above its base weight
RaisedWeights(weights) ==
    {k \in DOMAIN email_base_weights : weights[k] > email_base_weights[k]}

\* C21: when more than one of the elevation conditions holds at once
\* (pattern_score > 0.3, link_score > 0.5, sender_score > 0.5), at most one
\* component's weight is raised above its base weight
SingleRedistribution ==
    Scored("email") /\ ElevatedComponents > 1 =>
        Cardinality(RaisedWeights(ScoredEmailWeights)) <= 1

(***************************************************************************)
(* The graduated bonus for several high-risk indicators.                   *)
(***************************************************************************)
\* the weighted score times 1 + (b / d) * (count - offset), from the minimum
\* count on
GraduatedBonus(weighted, count, minimum, offset, b, d) ==
    IF count >= minimum THEN Times(weighted, d + b * (count - offset), d)
    ELSE weighted

\* the weighted sums and the indicator counts of the scored content
SmsWeighted ==
    sms_weighted_score(ClassificationContribution,
                       out[1].detailed_analysis.pattern_analysis.total_pattern_score,
                       out[1].detailed_analysis.statistical_analysis.statistical_score,
                       out[1].detailed_analysis.sender_analysis.score)

EmailWeighted ==
    email_weighted_score(ClassificationContribution,
                         out[1].detailed_analysis.pattern_analysis.total_pattern_score,
                         out[1].detailed_analysis.statistical_analysis.statistical_score,
                         out[1].detailed_analysis.sender_analysis.score,
                         out[1].detailed_analysis.link_analysis.score)

ChatWeighted ==
    chat_weighted_score(ClassificationContribution,
                        out[1].detailed_analysis.pattern_analysis.total_pattern_score,
                        out[1].detailed_analysis.conversation_analysis.score,
                        out[1].detailed_analysis.sender_analysis.score, 0)

\* the SMS components above the highest threshold the specification names for
\* them (classification 0.7, pattern 0.4, sender 0.6)
SmsIndicators ==
    CountTrue(<<ClassificationContribution > Frac(7, 10),
                out[1].detailed_analysis.pattern_analysis.total_pattern_score > Frac(4, 10),
                out[1].detailed_analysis.sender_analysis.score > Frac(6, 10)>>)

EmailIndicators ==
    CountTrue(<<ClassificationContribution > Frac(7, 10),
                out[1].detailed_analysis.pattern_analysis.total_pattern_score > Frac(4, 10),
                out[1].detailed_analysis.link_analysis.score > Frac(6, 10),
                out[1].detailed_analysis.sender_analysis.score > Frac(6, 10)>>)

ChatIndicators ==
    CountTrue(<<ClassificationContribution > Frac(6, 10),
                out[1].detailed_analysis.pattern_analysis.total_pattern_score > Frac(3, 10),
                out[1].detailed_analysis.conversation_analysis.score > Frac(3, 10),
                out[1].detailed_analysis.sender_analysis.score > Frac(4, 10)>>)

\* in email, count >= 2 gives the factor 1 + 0.15 * (count - 1)
EmailBonusGraduated ==
    Scored("email") =>
        out[1].risk_score =
            email_clamp(HalvedWhen(LegitimateBusinessEmail,
                                   GraduatedBonus(EmailWeighted, EmailIndicators, 2, 1, 3, 20)))

\* in chat, count >= 1 gives the factor 1 + 0.3 * count
ChatBonusGraduated ==
    Scored("chat") =>
        out[1].risk_score =
            chat_clamp(GraduatedBonus(ChatWeighted, ChatIndicators, 1, 0, 3, 10))

\* in SMS, count >= 2 gives a factor above 1
SmsBonusGraduated ==
    Scored("sms") /\ SmsIndicators >= 2 =>
        out[1].risk_score > SmsWeighted \/ out[1].risk_score = ONE

\* C22: the weighted score is multiplied by the graduated bonus exactly when
\* the number of components above their thresholds reaches the minimum of
\* the channel: in email, count >= 2 gives 1 + 0.15 * (count - 1); in chat,
\* count >= 1 gives 1 + 0.3 * count; in SMS, count >= 2 gives a factor above 1;
\* below the minimum the score is left unchanged
BonusGraduatedInEveryChannel ==
    /\ EmailBonusGraduated
    /\ ChatBonusGraduated
    /\ SmsBonusGraduated

(***************************************************************************)
(* The link analysis of an e-mail body.                                    *)
(***************************************************************************)
\* the URLs of the analysed body, in order
UrlsOf(body) == SelectSeq(body, LAMBDA t : t \in Urls)

\* 0.4 for a shortener plus 0.5 for a suspicious TLD plus 0.3 for a phishing
\* keyword, in tenths
UrlScore(url) ==
    (IF UrlShape[url].shortener THEN 4 ELSE 0) +
    (IF UrlShape[url].suspicious THEN 5 ELSE 0) +
    (IF UrlShape[url].keyword THEN 3 ELSE 0)

\* min(sum of the scores of all URLs / number of URLs, 1.0)
AverageUrlScore(urls) ==
    Min(Frac(SumSeq([i \in 1..Len(urls) |-> UrlScore(urls[i])]), 10 * Len(urls)), ONE)

\* C23: the link score is min(sum of the per-URL scores / number of URLs
\* found, 1.0); a URL is listed as suspicious exactly when its score exceeds
\* 0.2; a body with no URL gives score 0 and no suspicious link
LinkScoreIsAverage ==
    Scored("email-links") =>
        LET urls == UrlsOf(inp.content)
        IN  /\ urls = <<>> => out[1].score = 0 /\ out[1].suspicious_links = <<>>
            /\ urls # <<>> => out[1].score = AverageUrlScore(urls)
            /\ out[1].suspicious_links = SelectSeq(urls, LAMBDA u : UrlScore(u) > 2)

\* two URLs, one of them suspicious: the score is half the score of that one
LinkScoreAveraged ==
    /\ Scored("email-links")
    /\ Len(UrlsOf(inp.content)) = 2
    /\ Len(out[1].suspicious_links) = 1
    /\ out[1].score = Frac(UrlScore(out[1].suspicious_links[1]), 20)
    /\ out[1].score > 0

(***************************************************************************)
(* The trigger list.                                                       *)
(***************************************************************************)
\* the first three matched phrases of every category that scores above the
\* threshold, without duplicates
TriggersAbove(pattern_analysis, threshold) ==
    UNION {Range(Take(pattern_analysis.found_patterns[cat], 3)) :
              cat \in {c \in DOMAIN pattern_analysis.pattern_scores :
                          pattern_analysis.pattern_scores[c] > threshold}}

\* the thresholds from 0.2 to 0.3, in hundredths
TriggerThresholds == {Frac(k, 100) : k \in 20..30}

TriggersOfChannel(channel) ==
    Scored(channel) =>
        \E threshold \in TriggerThresholds :
            out[1].triggers =
                TriggersAbove(out[1].detailed_analysis.pattern_analysis, threshold)

\* C24: in each channel the trigger list is the duplicate-free union, over
\* the categories whose pattern score exceeds the threshold of the channel,
\* of the first three matched phrases of the category, and the threshold
\* lies between 0.2 and 0.3
TriggersAboveChannelThreshold ==
    \A channel \in {"sms", "email", "chat"} : TriggersOfChannel(channel)

(***************************************************************************)
(* The cache under concurrent calls (SpecConcurrent).                      *)
(***************************************************************************)
\* the result of every e-mail of the specification, as a call that runs
\* alone computes it
CompleteResults ==
    [call \in ConcurrentEmails |->
        email_result(call[1], call[2], call[3],
                     email_classify_phishing(MockEnv(call[2], "phishing", "legitimate"),
                                             "loaded"), 0)]

\* the result is the whole result of an e-mail with this key
CompleteFor(result, key) ==
    \E call \in ConcurrentEmails :
        /\ cache_key(call[1], call[2], call[3]) = key
        /\ SameAnalysis(result, CompleteResults[call])

\* C25: under any interleaving of concurrent analyze_email calls the cache
\* never holds more than cache_max_size entries, and every entry of the
\* cache and every result a call returns is a whole result
ConcurrentCacheSafe ==
    /\ Len(analysis_cache) <= cache_max_size
    /\ \A i \in 1..Len(analysis_cache) :
            CompleteFor(analysis_cache[i].result, analysis_cache[i].key)
    /\ last.op = "analyze_email" =>
            /\ last.outcome = "returned"
            /\ CompleteFor(last.result[1],
                           cache_key(last.args[1], last.args[2], last.args[3]))

\* the cache is full, a call has just stored its result, and another call
\* that missed the cache before is still suspended, its key stored meanwhile
StoredWhileSuspended ==
    /\ Len(analysis_cache) = cache_max_size
    /\ last.op = "analyze_email" /\ ~last.cache_hit /\ last.evicted # {}
    /\ \E t \in 1..MaxTasks :
        /\ tasks[t].pc = "awaiting"
        /\ cache_key(tasks[t].args[1], tasks[t].args[2], tasks[t].args[3])
                \in CacheKeys(analysis_cache)

(***************************************************************************)
(* The requests a cached e-mail result is served to (SpecCache).           *)
(***************************************************************************)
\* the result of the e-mail analysed on its own, without the cache
Uncached(subject, body, sender_email) ==
    email_result(subject, body, sender_email,
                 email_classify_phishing(MockEnv(body, "phishing", "legitimate"),
                                         phishing_classifier), 0)

\* C26: in every result analyze_email returns, from the cache or not, the
\* subject and the body are the arguments of the call and the risk score is
\* the one of that subject, body and sender, also when another subject, body
\* and sender have the same concatenation
CacheServesSameRequest ==
    Returned_("analyze_email") =>
        /\ last.result[1].content = <<last.args[1], last.args[2]>>
        /\ last.result[1].risk_score =
                Uncached(last.args[1], last.args[2], last.args[3]).risk_score

(***************************************************************************)
(* The e-mail risk score as a function of the pattern score.               *)
(***************************************************************************)
\* C27: for fixed classification, statistical, sender and link inputs, a
\* higher total_pattern_score never gives a lower risk score, across the
\* reweighting threshold of 0.3 in particular
EmailScoreMonotonicInPattern ==
    Scored("email-fusion") =>
        \A pattern_score \in PatternGrid :
            pattern_score >= inp.content[1] =>
                FusedEmailScore(inp.classification,
                                [inp.content EXCEPT ![1] = pattern_score]) >= out[1]

(***************************************************************************)
(* The explanation of a flagged result.                                    *)
(***************************************************************************)
\* the sentences _generate_explanation returns when it found no indicator
DefaultExplanations ==
    {<<"No significant scam indicators detected">>,
     <<"No significant phishing indicators detected">>}

ExplainedWhenFlagged(channel) ==
    Scored(channel) /\ out[1].flagged => out[1].explanation \notin DefaultExplanations

\* C28: in every channel a flagged result has an explanation that names at
\* least one indicator, whatever the confidence of the classifier, a positive
\* classification of confidence 0.7 or less and no other signal included
FlaggedResultIsExplained ==
    \A channel \in {"sms", "email", "chat"} : ExplainedWhenFlagged(channel)

SmsFlaggedIsExplained == ExplainedWhenFlagged("sms")

EmailFlaggedIsExplained == ExplainedWhenFlagged("email")

ChatFlaggedIsExplained == ExplainedWhenFlagged("chat")

(***************************************************************************)
(* SpecHttp: the analysis endpoints of main.py.  The start-up handler logs *)
(* an analyzer that fails to initialise and goes on, so a request may find *)
(* any of the analyzers not ready.  out holds the response to the last     *)
(* request, last the call of the analyzer the request made.                *)
(***************************************************************************)
\* SMSAnalyzer.initialize: both models have to load, or initialize raises
\* and is_initialized stays as it is
InitializeSms(loaded) ==
    /\ is_initialized' = IF loaded THEN [is_initialized EXCEPT !.sms = TRUE]
                         ELSE is_initialized
    /\ UNCHANGED <<phishing_classifier, scam_classifier, analysis_cache, last, inp, out, tasks>>

\* the classifiers of an SMS analyzer that was never initialized are None,
\* and calling them raises TypeError
SmsEnv(env) ==
    IF is_initialized.sms THEN env ELSE [primary |-> Raises, secondary |-> Raises]

\* what the try block of a handler did: it returned the response, raised an
\* HTTPException of its own, or let an exception of the analyzer through;
\* text is str(e)
TryReturned(body) ==
    [kind |-> "returned", status_code |-> 200, text |-> "", body |-> <<body>>]

TryRaisedHTTPException(status_code, text) ==
    [kind |-> "HTTPException", status_code |-> status_code, text |-> text, body |-> <<>>]

TryRaisedException ==
    [kind |-> "Exception", status_code |-> 0, text |-> "error", body |-> <<>>]

TryCall(call) ==
    IF call.outcome = "raised" THEN TryRaisedException ELSE TryReturned(call.result[1])

\* "except Exception as e: raise HTTPException(status_code=500, detail=...)"
\* around the whole body of the handler; HTTPException derives from
\* Exception.  raised is the status code of the HTTPException the body
\* raised itself, 0 when it raised none.
Respond(endpoint, tried, prefix) ==
    IF tried.kind = "returned"
    THEN [endpoint |-> endpoint, raised |-> 0, status_code |-> 200,
          detail |-> <<>>, body |-> tried.body]
    ELSE [endpoint |-> endpoint,
          raised |-> IF tried.kind = "HTTPException" THEN tried.status_code ELSE 0,
          status_code |-> 500, detail |-> <<prefix, tried.text>>, body |-> <<>>]

\* POST /analyze/text with channel "sms"
PostAnalyzeText(content, sender_info, env, now) ==
    IF ~is_initialized.sms
    THEN /\ out' = <<Respond("/analyze/text",
                             TryRaisedHTTPException(503, "503: SMS analyzer not ready"),
                             "Text analysis failed: ")>>
         /\ UNCHANGED <<is_initialized, phishing_classifier, scam_classifier,
                        analysis_cache, last, inp, tasks>>
    ELSE \E did \in {analyze_sms(content, sender_info, env, now)} :
         /\ last' = Call("analyze_sms", <<content, sender_info>>, None, did, {})
         /\ out' = <<Respond("/analyze/text", TryCall(did), "Text analysis failed: ")>>
         /\ UNCHANGED <<is_initialized, phishing_classifier, scam_classifier,
                        analysis_cache, inp, tasks>>

\* POST /analyze/email
PostAnalyzeEmail(subject, body, sender_email, env, now) ==
    IF ~is_initialized.email
    THEN /\ out' = <<Respond("/analyze/email",
                             TryRaisedHTTPException(503, "503: Email analyzer not ready"),
                             "Email analysis failed: ")>>
         /\ UNCHANGED <<is_initialized, phishing_classifier, scam_classifier,
                        analysis_cache, last, inp, tasks>>
    ELSE \E did \in {analyze_email(subject, body, sender_email, env,
                                    phishing_classifier, now, analysis_cache)} :
         /\ last' = Call("analyze_email", <<subject, body, sender_email>>,
                         phishing_classifier, did.call, did.evicted)
         /\ analysis_cache' = did.cache
         /\ out' = <<Respond("/analyze/email", TryCall(did.call),
                             "Email analysis failed: ")>>
         /\ UNCHANGED <<is_initialized, phishing_classifier, scam_classifier, inp, tasks>>

\* POST /analyze/chat; the content is not a JSON list and is taken as the
\* one message of the conversation
PostAnalyzeChat(content, sender_info, env, now) ==
    IF ~is_initialized.chat
    THEN /\ out' = <<Respond("/analyze/chat",
                             TryRaisedHTTPException(503, "503: Chat analyzer not ready"),
                             "Chat analysis failed: ")>>
         /\ UNCHANGED <<is_initialized, phishing_classifier, scam_classifier,
                        analysis_cache, last, inp, tasks>>
    ELSE \E did \in {analyze_chat(<<content>>, sender_info, env, scam_classifier, now)} :
         /\ last' = Call("analyze_chat", <<<<content>>, sender_info>>, scam_classifier,
                         did, {})
         /\ out' = <<Respond("/analyze/chat", TryCall(did), "Chat analysis failed: ")>>
         /\ UNCHANGED <<is_initialized, phishing_classifier, scam_classifier,
                        analysis_cache, inp, tasks>>

\* content.strip() on the lines of a content: the empty lines at both ends go
strip(lines) ==
    LET filled == {i \in 1..Len(lines) : lines[i] # <<>>}
    IN  IF filled = {} THEN <<>>
        ELSE SubSeq(lines, CHOOSE i \in filled : \A j \in filled : i <= j,
                           CHOOSE i \in filled : \A j \in filled : i >= j)

\* the tokens "^\w+:\s*" matches at the start of a line
WordColonTokens == {"body:", "Body:", "Subject:", "subject:", "URGENT:"} \cup Urls

\* len(line.split(':')[0]) of a line that holds a colon, -1 of one that
\* holds none
RECURSIVE colon_prefix(_)
colon_prefix(line) ==
    IF line = <<>> THEN -1
    ELSE IF Head(line) \in Urls THEN 4
    ELSE IF Head(line) \in WordColonTokens THEN Chars[Head(line)].len - 1
    ELSE IF colon_prefix(Tail(line)) = -1 THEN -1
    ELSE Chars[Head(line)].len + 1 + colon_prefix(Tail(line))

\* len(content) of the lines joined by "\n"
content_length(lines) ==
    SumSeq([i \in 1..Len(lines) |-> TextLen(lines[i])]) + (Len(lines) - 1)

\* detect_content_type on the lines of a content.  Of the e-mail patterns
\* only "^subject\s*:" matches a word of the vocabulary, of the chat patterns
\* only "^\s*\[.*?\]\s*" and "^\w+:\s*".
detect_content_type(lines) ==
    LET starts(S) == \E i \in 1..Len(lines) : lines[i] # <<>> /\ lines[i][1] \in S
        email_score ==
            (IF starts({"Subject:", "subject:"}) THEN 1 ELSE 0) +
            (IF \E i \in 1..Min(5, Len(lines)) :
                    lines[i] # <<>> /\ lines[i][1] = "Subject:" THEN 2 ELSE 0) +
            (IF content_length(lines) > 1000 THEN 1
             ELSE IF content_length(lines) < 200 THEN -1 ELSE 0)
        chat_score ==
            (IF starts({"[PHONE]", "[URL]"}) THEN 1 ELSE 0) +
            (IF starts(WordColonTokens) THEN 1 ELSE 0) +
            (IF /\ Len(lines) > 1
                /\ \E i \in 1..Min(3, Len(lines)) : colon_prefix(lines[i]) \in 0..19
             THEN 2 ELSE 0)
    IN  IF email_score >= 2 THEN "email"
        ELSE IF chat_score >= 2 THEN "chat"
        ELSE "sms"

\* get_detection_confidence, in tenths; no word of the vocabulary holds an
\* e-mail address
get_detection_confidence(lines, detected_type) ==
    LET starts(S) == \E i \in 1..Len(lines) : lines[i] # <<>> /\ lines[i][1] \in S
    IN  CASE detected_type = "email" ->
                Min(10, 5 + (IF starts({"Subject:", "subject:"}) THEN 3 ELSE 0)
                          + (IF content_length(lines) > 500 THEN 1 ELSE 0))
          [] detected_type = "chat" ->
                Min(10, 5 + (IF starts(WordColonTokens \ Urls) THEN 3 ELSE 0)
                          + (IF starts({"[PHONE]", "[URL]"}) THEN 2 ELSE 0)
                          + (IF Len(lines) > 3 THEN 1 ELSE 0))
          [] OTHER ->
                Min(10, 5 + (IF content_length(lines) < 200 THEN 2 ELSE 0) + 1)

\* the fields the unified endpoint adds to the analysis
unified_analysis(analysis, lines, detected_type) ==
    [detected_type |-> detected_type, unified_analysis |-> TRUE,
     detection_confidence |-> get_detection_confidence(lines, detected_type)] @@ analysis

TryUnified(call, lines, detected_type) ==
    IF call.outcome = "raised" THEN TryRaisedException
    ELSE TryReturned(unified_analysis(call.result[1], lines, detected_type))

\* POST /analyze/unified: no analyzer is asked whether it is ready
PostAnalyzeUnified(request_content, sender_info, env, now) ==
    \E content \in {strip(request_content)} :
    \E detected_type \in {detect_content_type(content)} :
    IF content = <<>>
    THEN /\ out' = <<Respond("/analyze/unified",
                             TryRaisedHTTPException(400, "400: Content is required"),
                             "Analysis failed: ")>>
         /\ UNCHANGED <<is_initialized, phishing_classifier, scam_classifier,
                        analysis_cache, last, inp, tasks>>
    ELSE IF detected_type = "email"
    THEN \E did \in {analyze_email(content[1], Flatten(Tail(content)), sender_info,
                                    EmailEnv(env), phishing_classifier, now,
                                    analysis_cache)} :
         /\ last' = Call("analyze_email",
                         <<content[1], Flatten(Tail(content)), sender_info>>,
                         phishing_classifier, did.call, did.evicted)
         /\ analysis_cache' = did.cache
         /\ out' = <<Respond("/analyze/unified",
                             TryUnified(did.call, content, detected_type),
                             "Analysis failed: ")>>
         /\ UNCHANGED <<is_initialized, phishing_classifier, scam_classifier, inp, tasks>>
    ELSE IF detected_type = "chat"
    THEN \E did \in {analyze_chat(<<Flatten(content)>>, sender_info, ChatEnv(env),
                                   scam_classifier, now)} :
         /\ last' = Call("analyze_chat", <<<<Flatten(content)>>, sender_info>>,
                         scam_classifier, did, {})
         /\ out' = <<Respond("/analyze/unified", TryUnified(did, content, detected_type),
                             "Analysis failed: ")>>
         /\ UNCHANGED <<is_initialized, phishing_classifier, scam_classifier,
                        analysis_cache, inp, tasks>>
    ELSE \E did \in {analyze_sms(Flatten(content), sender_info, SmsEnv(env), now)} :
         /\ last' = Call("analyze_sms", <<Flatten(content), sender_info>>, None, did, {})
         /\ out' = <<Respond("/analyze/unified", TryUnified(did, content, detected_type),
                             "Analysis failed: ")>>
         /\ UNCHANGED <<is_initialized, phishing_classifier, scam_classifier,
                        analysis_cache, inp, tasks>>

\* the contents the requests carry; a request model refuses an empty content,
\* subject or body before the handler runs
HttpTexts == {<<"hello">>, <<"URGENT", "arrest">>}

\* the contents sent to the unified endpoint, as lines: none, blank, a
\* message, an e-mail with its subject line, and a chat line under a name
UnifiedContents ==
    {<<>>, <<<<>>, <<>>>>, <<<<"hello">>>>, <<<<>>, <<"URGENT", "arrest">>, <<>>>>,
     <<<<"Subject:", "hello">>, <<"URGENT">>>>, <<<<"URGENT:">>, <<"hello">>>>}

\* one environment for the models of whichever analyzer the request reaches
HttpEnvs ==
    [primary   : {Raises, Returns("LABEL_1", Frac(9, 10))},
     secondary : {Raises},
     sentiment : {"LABEL_0"}]

NextHttp ==
    \/ \E loaded \in BOOLEAN : InitializeSms(loaded)
    \/ \E zero_shot_loaded \in BOOLEAN : InitializeEmail(TRUE, zero_shot_loaded)
    \/ \E zero_shot_loaded \in BOOLEAN : InitializeChat(TRUE, zero_shot_loaded)
    \/ \E content \in HttpTexts, sender_info \in {None, "555-0123"}, env \in HttpEnvs :
            PostAnalyzeText(content, sender_info, env, 1)
    \/ \E body \in HttpTexts, env \in HttpEnvs :
            PostAnalyzeEmail(<<"hello">>, body, None, env, 1)
    \/ \E content \in HttpTexts, env \in HttpEnvs :
            PostAnalyzeChat(content, None, env, 1)
    \/ \E content \in UnifiedContents, env \in HttpEnvs :
            PostAnalyzeUnified(content, "", env, 1)

SpecHttp == Init /\ [][NextHttp]_vars

(***************************************************************************)
(* The status code of an error the endpoint raises itself.                 *)
(***************************************************************************)
\* C29: when a handler raises an HTTPException of its own (503 for an
\* analyzer that is not ready in /analyze/text, /analyze/email and
\* /analyze/chat, 400 for an empty content in /analyze/unified), the client
\* receives that status code and not 500
OwnStatusCodeReachesClient ==
    out # <<>> /\ out[1].raised # 0 => out[1].status_code = out[1].raised

(***************************************************************************)
(* The SMS score without a positive classification.                        *)
(***************************************************************************)
\* the result of the SMS scoring applied to the input
SmsScoredResult == out[1]

\* C30: in the SMS channel very_short and very_long are never both true, so
\* when the classification is not positive (the "unknown" stub included) the
\* risk score is at most 0.56 (0.3 * 1 + 0.2 * 4/5 + 0.1 * 1), the message
\* is not flagged as a scam and the level is not HIGH, whatever the pattern,
\* statistical and sender signals are
SmsWithoutPositiveClassificationAtMost056 ==
    /\ Scored("sms") =>
            LET statistical_analysis ==
                    SmsScoredResult.detailed_analysis.statistical_analysis
            IN  /\ ~(statistical_analysis.very_short /\ statistical_analysis.very_long)
                /\ statistical_analysis.statistical_score <= Frac(4, 5)
    /\ (Scored("sms") \/ Scored("sms-fusion")) /\ ~inp.classification.is_positive =>
            /\ SmsScoredResult.risk_score <= Frac(56, 100)
            /\ ~SmsScoredResult.flagged
            /\ SmsScoredResult.risk_level # "HIGH"

\* C30 happens: with no classification at all and every other signal at its
\* highest the score is exactly 0.56, and the level MEDIUM
SmsBoundAttained ==
    /\ Scored("sms-fusion")
    /\ inp.classification = Unknown
    /\ inp.content = <<ONE, Frac(4, 5), ONE>>
    /\ SmsScoredResult.risk_score = Frac(56, 100)
    /\ SmsScoredResult.risk_level = "MEDIUM"
    /\ ~SmsScoredResult.flagged
====
